---- MODULE Spec2Model ----
(***************************************************************************)
(* A model of the usage governor and the extraction pipeline of the mise   *)
(* backend: the spending ledger (services/spending.js), the usage resolver *)
(* (services/usage.js), the monthly reset (services/auth.js), the rate     *)
(* limiter (middleware/rateLimiter.js) and the request handlers of         *)
(* routes/recipes.js.                                                      *)
(*                                                                         *)
(* Every request is a sequential task that is suspended at each await.     *)
(* One action of the model executes the operation a request is waiting for *)
(* (a database statement, a fetch, an AI call) and then runs the           *)
(* synchronous code that follows it up to the next await.  The wall clock  *)
(* is read where the code reads it (new Date(), Date.now()).               *)
(*                                                                         *)
(* Money is counted in units of 1/10000 dollar, the resolution of the      *)
(* DECIMAL(10,4) columns of spending_tracker.  A date is a day number, and *)
(* the month of a day is MonthOf(day).                                     *)
(***************************************************************************)
EXTENDS Integers, Sequences, FiniteSets, TLC

----------------------------------------------------------------------------
(* Program constants                                                       *)

DAILY_SPENDING_LIMIT == 10
MONTHLY_SPENDING_LIMIT == 100
INITIAL_FREE_RECIPES == 10
FREE_RECIPES_PER_MONTH == 3
BASIC_RECIPES_PER_MONTH == 20
\* one dollar in ledger units: DECIMAL(10,4)
MoneyScale == 10000
\* COST_PER_URL_RECIPE = 0.03 and COST_PER_PHOTO_RECIPE = 0.06 dollars, and the
\* 0.01 dollars of a translation, in ledger units
COST_PER_URL_RECIPE == 300
COST_PER_PHOTO_RECIPE == 600
TRANSLATE_COST == 100
\* the two limiters: rateLimiter({ windowMs: 60000, max: 10 | 100 })
WINDOW_MS == 60000
RECIPE_RATE_MAX == 10
API_RATE_MAX == 100

DailyLimit == DAILY_SPENDING_LIMIT * MoneyScale
MonthlyLimit == MONTHLY_SPENDING_LIMIT * MoneyScale
\* CONFIG.COST_PER_URL_RECIPE * 0.5 and CONFIG.COST_PER_URL_RECIPE * 1.5
CostFast == COST_PER_URL_RECIPE \div 2
CostYoutube == (COST_PER_URL_RECIPE * 3) \div 2

----------------------------------------------------------------------------
(* Bounds of the model                                                     *)

\* concurrent requests
NumReq == 2
\* the wall clock runs over the days 0..MaxDay
MaxDay == 2
\* days of a model month
DaysPerMonth == 2
\* how many times a rate window's length may elapse
MaxWindows == 1
\* how many requests a client sends one after another
MaxRequests == 12
\* how many requests a client sends in the run through a whole window of the
\* application-wide limiter
MaxPolls == 102
\* the longest list of steps of an extracted recipe
MaxSteps == 3
\* how many times the server process is started
MaxBoots == 2

Reqs == 1..NumReq
Days == 0..MaxDay
MonthOf(day) == day \div DaysPerMonth

UserIds == {"u1"}
Fingerprints == {"fp1"}
\* every request comes from one address; a limiter key is a user id or the address
Ip == "ip"
RateKeys == UserIds \cup {Ip}
\* POST /api/recipe/clean-url, clean-photo, clean-youtube and translate, and
\* GET /api/status
Endpoints == {"clean-url", "clean-photo", "clean-youtube", "translate", "status"}
Extraction == {"clean-url", "clean-photo", "clean-youtube"}
Tokens == UserIds \cup {"none"}
FingerprintInputs == Fingerprints \cup {"none"}

VARIABLES
    nowDay,     \* the wall clock's date
    nowMs,      \* the wall clock in milliseconds (Date.now())
    ledger,     \* the row of spending_tracker
    users,      \* the rows of users, by id
    anon,       \* recipes_used of anonymous_usage by fingerprint, -1: no row
    rate,       \* the limiter's Map: key -> window
    req         \* the requests: position and local variables

vars == <<nowDay, nowMs, ledger, users, anon, rate, req>>


----------------------------------------------------------------------------
(* Values                                                                  *)

\* req.user when no session matches the token (authenticateToken: req.user = null)
NoUser ==
    [present |-> FALSE, id |-> "none", subscription |-> "free",
     recipes_used_this_month |-> 0, month_started |-> 0]

\* the row of spending_tracker whose id is 1; rows is the number of rows of
\* the table
LedgerRow(dd, da, mm, ma, p) ==
    [rows |-> 1, daily_date |-> dd, daily_amount |-> da,
     monthly_month |-> mm, monthly_amount |-> ma, paused |-> p]

\* spending_tracker before its row is inserted
NoLedgerRow == [LedgerRow(0, 0, 0, 0, FALSE) EXCEPT !.rows = 0]

\* an insertion that overwrites the row it finds with the defaults
initSpendingTable_Upsert(l, today) ==
    LedgerRow(today, 0, today \div DaysPerMonth, 0, FALSE)

\* initSpendingTable: CREATE TABLE IF NOT EXISTS, then INSERT ... ON CONFLICT
\* (id) DO NOTHING; a new row takes the defaults of its columns
initSpendingTable(l, today) ==
    IF l.rows = 0
    THEN LedgerRow(today, 0, today \div DaysPerMonth, 0, FALSE)
    ELSE l

\* an entry of the limiter's Map
NoWindow == [present |-> FALSE, windowStart |-> 0, count |-> 0]

\* a JavaScript boolean property that may be absent
BoolStr(b) == IF b THEN "true" ELSE "false"

\* the object canCleanRecipe returns; "undefined" marks an absent property
NoDecision ==
    [allowed |-> FALSE, reason |-> "undefined", hasRemaining |-> FALSE,
     remaining |-> 0, upgrade |-> "undefined", requiresSignup |-> "undefined",
     isAnonymous |-> FALSE]

----------------------------------------------------------------------------
(* Pure functions of the code                                              *)

\* a breaker that looks at the day's accumulator only
ShouldPause_DailyOnly(tracker) == tracker.daily_amount >= DailyLimit

\* checkSpendingLimits: shouldPause
ShouldPause(tracker) ==
    \/ tracker.daily_amount >= DailyLimit
    \/ tracker.monthly_amount >= MonthlyLimit

\* canCleanRecipe, `if (user)`, with `<=` for `<` in the two quota tests
UserDecision_Lte(user) ==
    IF user.subscription = "pro" THEN
        [NoDecision EXCEPT !.allowed = TRUE]
    ELSE
        LET limit == IF user.subscription = "basic"
                     THEN BASIC_RECIPES_PER_MONTH ELSE FREE_RECIPES_PER_MONTH
        IN  [NoDecision EXCEPT
                !.allowed = user.recipes_used_this_month <= limit,
                !.hasRemaining = TRUE,
                !.remaining = limit - user.recipes_used_this_month,
                !.upgrade = IF user.subscription = "basic" THEN "undefined"
                            ELSE BoolStr(user.recipes_used_this_month >= limit)]

\* canCleanRecipe, `if (user)`, without the line that lets the pro tier through
UserDecision_ProCapped(user) ==
    IF user.subscription \in {"basic", "pro"} THEN
        [NoDecision EXCEPT
            !.allowed = user.recipes_used_this_month < BASIC_RECIPES_PER_MONTH,
            !.hasRemaining = TRUE,
            !.remaining = BASIC_RECIPES_PER_MONTH - user.recipes_used_this_month]
    ELSE
        [NoDecision EXCEPT
            !.allowed = user.recipes_used_this_month < FREE_RECIPES_PER_MONTH,
            !.hasRemaining = TRUE,
            !.remaining = FREE_RECIPES_PER_MONTH - user.recipes_used_this_month,
            !.upgrade = BoolStr(user.recipes_used_this_month >= FREE_RECIPES_PER_MONTH)]

\* canCleanRecipe, `if (user)`: the tiers pro, basic and free
UserDecision(user) ==
    IF user.subscription = "pro" THEN
        [NoDecision EXCEPT !.allowed = TRUE]
    ELSE IF user.subscription = "basic" THEN
        [NoDecision EXCEPT
            !.allowed = user.recipes_used_this_month < BASIC_RECIPES_PER_MONTH,
            !.hasRemaining = TRUE,
            !.remaining = BASIC_RECIPES_PER_MONTH - user.recipes_used_this_month]
    ELSE
        [NoDecision EXCEPT
            !.allowed = user.recipes_used_this_month < FREE_RECIPES_PER_MONTH,
            !.hasRemaining = TRUE,
            !.remaining = FREE_RECIPES_PER_MONTH - user.recipes_used_this_month,
            !.upgrade = BoolStr(user.recipes_used_this_month >= FREE_RECIPES_PER_MONTH)]

\* canCleanRecipe, `if (fingerprint)`, with `<=` for `<`
AnonymousDecision_Lte(recipes_used) ==
    IF recipes_used <= INITIAL_FREE_RECIPES THEN
        [NoDecision EXCEPT
            !.allowed = TRUE,
            !.hasRemaining = TRUE,
            !.remaining = INITIAL_FREE_RECIPES - recipes_used,
            !.isAnonymous = TRUE]
    ELSE
        [NoDecision EXCEPT !.reason = "initial_limit", !.requiresSignup = "true"]

\* canCleanRecipe, `if (fingerprint)`: usage.recipes_used against the allowance
AnonymousDecision(recipes_used) ==
    IF recipes_used < INITIAL_FREE_RECIPES THEN
        [NoDecision EXCEPT
            !.allowed = TRUE,
            !.hasRemaining = TRUE,
            !.remaining = INITIAL_FREE_RECIPES - recipes_used,
            !.isAnonymous = TRUE]
    ELSE
        [NoDecision EXCEPT !.reason = "initial_limit", !.requiresSignup = "true"]

\* canCleanRecipe with the pause check after the user's tier
canCleanRecipe_TierFirst(paused, user, fingerprint, recipes_used) ==
    IF user.present THEN UserDecision(user)
    ELSE IF paused THEN [NoDecision EXCEPT !.reason = "system_limit"]
    ELSE IF fingerprint # "none" THEN AnonymousDecision(recipes_used)
    ELSE [NoDecision EXCEPT !.reason = "no_tracking"]

\* canCleanRecipe without its last line: the untracked caller falls through
\* to the anonymous allowance
canCleanRecipe_ServeUntracked(paused, user, fingerprint, recipes_used) ==
    IF paused THEN [NoDecision EXCEPT !.reason = "system_limit"]
    ELSE IF user.present THEN UserDecision(user)
    ELSE AnonymousDecision(recipes_used)

\* canCleanRecipe as a function of what it has read: the answer of
\* isSystemPaused(), the user object, the fingerprint and, for an anonymous
\* caller, usage.recipes_used.  First match wins.
canCleanRecipe(paused, user, fingerprint, recipes_used) ==
    IF paused THEN [NoDecision EXCEPT !.reason = "system_limit"]
    ELSE IF user.present THEN UserDecision(user)
    ELSE IF fingerprint # "none" THEN AnonymousDecision(recipes_used)
    ELSE [NoDecision EXCEPT !.reason = "no_tracking"]

\* a limiter whose window is already over when exactly windowMs have passed
rateLimiter_Gte(rt, key, windowMs, max) ==
    LET fresh == ~rt[key].present \/ nowMs - rt[key].windowStart >= windowMs
        data == IF fresh
                THEN [present |-> TRUE, windowStart |-> nowMs, count |-> 0]
                ELSE rt[key]
        counted == [data EXCEPT !.count = @ + 1]
    IN  [rate |-> [rt EXCEPT ![key] = counted], next |-> counted.count <= max]

\* a limiter that starts the window anew at every request it turns away
rateLimiter_Penalty(rt, key, windowMs, max) ==
    LET fresh == ~rt[key].present \/ nowMs - rt[key].windowStart > windowMs
        data == IF fresh
                THEN [present |-> TRUE, windowStart |-> nowMs, count |-> 0]
                ELSE rt[key]
        counted == [data EXCEPT !.count = @ + 1]
        stored == IF counted.count > max
                  THEN [counted EXCEPT !.windowStart = nowMs] ELSE counted
    IN  [rate |-> [rt EXCEPT ![key] = stored], next |-> counted.count <= max]

\* rateLimiter's middleware on the Map rt for one key: the Map after the call
\* and whether next() was called (FALSE: the 429 response)
rateLimiter(rt, key, windowMs, max) ==
    LET fresh == ~rt[key].present \/ nowMs - rt[key].windowStart > windowMs
        data == IF fresh
                THEN [present |-> TRUE, windowStart |-> nowMs, count |-> 0]
                ELSE rt[key]
        counted == [data EXCEPT !.count = @ + 1]
    IN  [rate |-> [rt EXCEPT ![key] = counted], next |-> counted.count <= max]

\* a gate that lets every signed-in user through
requirePaidSubscription_AnyUser(user) == user.present

\* requirePaidSubscription
requirePaidSubscription(user) ==
    user.present /\ user.subscription \in {"basic", "pro"}

\* the amount a handler passes to trackSpending
SpendAmount(endpoint, path) ==
    CASE endpoint = "clean-url" /\ path = "fast" -> CostFast
      [] endpoint = "clean-url" -> COST_PER_URL_RECIPE
      [] endpoint = "clean-photo" -> COST_PER_PHOTO_RECIPE
      [] endpoint = "clean-youtube" -> CostYoutube
      [] OTHER -> TRANSLATE_COST

----------------------------------------------------------------------------
(* Recipes                                                                 *)
(* A recipe is the object the handlers pass along.  A step is described by  *)
(* what the code looks at: whether it is a bare string or an object, the    *)
(* length of its instruction (-1: the object has no instruction), the       *)
(* length of the instruction once trimmed, and what its ingredients are:    *)
(* "array", "none" (missing, null or another falsy value) or "other" (a     *)
(* truthy value that is no array, such as a string).  The ingredients of a  *)
(* recipe is the length of its ingredients array (-1: not an array);        *)
(* hasSteps says that steps is an array.  A missing title or source is "",  *)
(* a missing servings is 0.                                                 *)

MAX_STEP_LENGTH == 400

StepOf(isString, len, trimmed, ingredients) ==
    [isString |-> isString, len |-> len, trimmed |-> trimmed,
     ingredients |-> ingredients]

RecipeOf(title, servings, ingredients, hasSteps, steps, src, needsDualUnits) ==
    [title |-> title, servings |-> servings, ingredients |-> ingredients,
     hasSteps |-> hasSteps, steps |-> steps,
     source |-> src[1], sourceUrl |-> src[2], imageUrl |-> src[3],
     needsDualUnits |-> needsDualUnits]

NoRecipe == RecipeOf("", 0, -1, FALSE, <<>>, <<"", "", "">>, FALSE)

\* the filter of validateAndFixRecipe: s.instruction?.trim().length > 10
KeepStep(s) == s.trimmed > 10

\* a test of the steps' length that flags an instruction of MAX_STEP_LENGTH
StepsTooLong_Gte(steps) ==
    \E i \in 1..Len(steps) : steps[i].len >= MAX_STEP_LENGTH

\* validateAndFixRecipe: recipe.steps.some(s => (...)?.length > MAX_STEP_LENGTH)
StepsTooLong(steps) ==
    \E i \in 1..Len(steps) : steps[i].len > MAX_STEP_LENGTH

\* validateAndFixRecipe: recipe.ingredients.length > 5 && recipe.steps.length < 3
TooFewSteps(ingredients, steps) == ingredients > 5 /\ Len(steps) < 3

\* { recipe, issues } of validateAndFixRecipe
validateAndFixRecipe(recipe) ==
    LET title == IF recipe.title = "" THEN "Recipe" ELSE recipe.title
        servings == IF recipe.servings = 0 THEN 4 ELSE recipe.servings
        ingredients == IF recipe.ingredients < 0 THEN 0 ELSE recipe.ingredients
        steps == IF recipe.hasSteps THEN recipe.steps ELSE <<>>
        tooLong == StepsTooLong(steps)
        tooFew == TooFewSteps(ingredients, steps)
        mapped == [i \in 1..Len(steps) |->
                     IF steps[i].isString
                     THEN StepOf(FALSE, steps[i].len, steps[i].trimmed, "array")
                     ELSE [steps[i] EXCEPT !.ingredients =
                                IF @ = "none" THEN "array" ELSE @]]
    IN  [recipe |-> [recipe EXCEPT !.title = title, !.servings = servings,
                                   !.ingredients = ingredients, !.hasSteps = TRUE,
                                   !.steps = SelectSeq(mapped, KeepStep)],
         issues |-> (IF tooLong THEN {"steps_too_long"} ELSE {})
                      \cup (IF tooFew THEN {"too_few_steps"} ELSE {})]

\* What an AI call gave back to its caller: the call threw ("throw"), the
\* text holds no braces ("nojson"), the text between the first and the last
\* brace does not parse ("unparsable"), or it parses to the object obj.
AiResult(kind, obj) == [kind |-> kind, obj |-> obj]

\* fixRecipeIssues, after its guard on issues.length: the parsed object, or
\* the recipe it was given when there is no match or the try block threw
fixRecipeIssues(recipe, ai) ==
    IF ai.kind = "object" THEN ai.obj ELSE recipe

\* enhanceRecipeWithDualUnits: the parsed object without _needsDualUnits, or
\* the recipe it was given
enhanceRecipeWithDualUnits(recipe, ai) ==
    IF ai.kind = "object" THEN [ai.obj EXCEPT !.needsDualUnits = FALSE] ELSE recipe

\* a variant of translateRecipe that returns the parsed object as it is
translateRecipe_AsParsed(recipe, obj) == obj

\* translateRecipe, once JSON.parse returned obj
translateRecipe(recipe, obj) ==
    [obj EXCEPT !.source = recipe.source, !.sourceUrl = recipe.sourceUrl,
                !.imageUrl = recipe.imageUrl]

----------------------------------------------------------------------------
(* Requests                                                                *)

\* a request that has not arrived
IdleReq ==
    [pc |-> "idle", endpoint |-> "none", token |-> "none", fingerprint |-> "none",
     urlOk |-> TRUE,
     user |-> NoUser,               \* req.user, later the handler's user
     today |-> 0, currentMonth |-> 0, \* getOrResetSpending's locals
     userMonth |-> 0,               \* resetMonthlyUsageIfNeeded's currentMonth
     tracker |-> LedgerRow(0, 0, 0, 0, FALSE),  \* the row read, as the resets change it
     ctx |-> "none",                \* who called checkSpendingLimits
     shouldPause |-> FALSE,
     pausedResult |-> "unknown",    \* what isSystemPaused returned to canCleanRecipe
     path |-> "none",               \* fast or slow
     issues |-> FALSE,              \* validateAndFixRecipe found an issue
     usage |-> 0,                   \* usage.recipes_used of getAnonymousUsage
     resetFrom |-> "none",          \* who called resetMonthlyUsageIfNeeded
     canClean |-> NoDecision,
     status |-> 0,                  \* the response's status, 0: none yet
     \* History of the request.  arrivedPaused: the ledger was at a ceiling when
     \* the request arrived, and the day has not changed since.  checkedPaused:
     \* the row that the SELECT of the request's pause check read (isSystemPaused
     \* in canCleanRecipe, or GET /api/status) was at a ceiling for the day and
     \* month the call had read from the clock.
     arrivedPaused |-> FALSE, checkedPaused |-> FALSE,
     \* pausedToday: isSystemPaused() answered true to this request on the
     \* current day; sawPaused: when this request called isSystemPaused(), on
     \* the current day, an earlier call of the day had answered true.
     pausedToday |-> FALSE, sawPaused |-> FALSE,
     \* the requests, and the extraction requests among them, that the client
     \* has sent since a rate window's length last passed, this one included
     sentAll |-> 0, sentExtraction |-> 0,
     \* fetchFailed: the handler found no source material (no page, no video
     \* id, or a transcript below the minimum length)
     fetchFailed |-> FALSE,
     \* noJson: the text of the extraction call's response held no JSON object
     noJson |-> FALSE,
     fetches |-> 0, aiCalls |-> 0, spends |-> 0, commits |-> 0,
     passedApi |-> 0,               \* admitted by apiRateLimiter in Ip's window
     passedRecipe |-> 0,            \* admitted by recipeRateLimiter in Ip's window
     rejected |-> 0,                \* answered 429 in Ip's window
     replaced |-> 0,                \* answered 429 in the window this request replaced
     repairCalls |-> 0,             \* the AI calls made by fixRecipeIssues
     boots |-> 0,                   \* how often startServer has run
     \* the client's extraction requests answered 200: those of its user that
     \* were admitted in the month servedMonth, and those of its fingerprint
     servedUser |-> 0, servedMonth |-> 0, servedAnon |-> 0,
     usageChanged |-> FALSE, ledgerChanged |-> FALSE,
     \* the handler's recipe, the issues found in it, and the recipe as it was
     \* given to validateAndFixRecipe (for translate, the recipe of the body)
     recipe |-> NoRecipe, issueTags |-> {}, input |-> NoRecipe,
     \* aiThrew: the extraction or the translation call threw; fetchThrew: a
     \* fetch of the source material threw; errorText: "err.message" when the
     \* response's error field is the message of the error that was thrown
     aiThrew |-> FALSE, fetchThrew |-> FALSE, errorText |-> "none",
     \* the other extraction requests with the same token that were in flight
     \* when this extraction request arrived
     concurrent |-> 0]

\* The breaker's state for a stored row l on a day: an accumulator whose
\* period is over counts as zero (the pending reset), and the breaker is paused
\* when an accumulator is at its ceiling.
LedgerPausedAt(l, day) ==
    LET da == IF l.daily_date # day THEN 0 ELSE l.daily_amount
        ma == IF l.monthly_month # MonthOf(day) THEN 0 ELSE l.monthly_amount
    IN  da >= DailyLimit \/ ma >= MonthlyLimit

----------------------------------------------------------------------------
(* Initial states: no request is in flight; the durable rows and the       *)
(* limiter's Map are as earlier, completed requests can have left them.    *)

InitLedgers ==
    { LedgerRow(0, a[1], 0, a[2], a[1] >= DailyLimit \/ a[2] >= MonthlyLimit) :
        a \in { <<0, 0>>,
                <<DailyLimit - CostFast, DailyLimit - CostFast>>,
                <<DailyLimit, DailyLimit>>,
                <<0, MonthlyLimit>> } }

InitUsers ==
    { [subscription |-> s[1], recipes_used_this_month |-> s[2], month_started |-> 0] :
        s \in { <<"free", FREE_RECIPES_PER_MONTH - 1>>,
                <<"free", FREE_RECIPES_PER_MONTH>>,
                <<"basic", BASIC_RECIPES_PER_MONTH - 1>>,
                <<"basic", BASIC_RECIPES_PER_MONTH>>,
                <<"pro", BASIC_RECIPES_PER_MONTH>> } }

InitAnon == {-1, INITIAL_FREE_RECIPES - 1, INITIAL_FREE_RECIPES}

InitRates ==
    { [k \in RateKeys |-> NoWindow],
      [k \in RateKeys |->
         [present |-> TRUE, windowStart |-> 0, count |-> RECIPE_RATE_MAX - 1]] }

Init ==
    /\ nowDay = 0
    /\ nowMs = 0
    /\ ledger \in InitLedgers
    /\ users \in [UserIds -> InitUsers]
    /\ anon \in [Fingerprints -> InitAnon]
    /\ rate \in InitRates
    /\ req = [r \in Reqs |-> IdleReq]


----------------------------------------------------------------------------
(* The synchronous code between two awaits.  Each operator takes the       *)
(* request's record and gives the record at the next await (or at the      *)
(* response).                                                              *)

\* the locals of checkSpendingLimits and getOrResetSpending go out of scope
LedgerLocalsDead(q) ==
    [q EXCEPT !.today = 0, !.currentMonth = 0, !.ctx = "none",
              !.tracker = LedgerRow(0, 0, 0, 0, FALSE), !.shouldPause = FALSE]

\* res.status(n).json(...); the user object and the usage row that
\* canCleanRecipe judged are kept with the response
Respond(q, status) ==
    [LedgerLocalsDead(q) EXCEPT
        !.pc = "done", !.status = status, !.urlOk = TRUE,
        !.userMonth = 0, !.resetFrom = "none"]

\* errorHandler: res.status(err.status || 500).json({ error: err.message ||
\* ... }); errStatus = 0: err.status is absent.  Every error thrown here
\* has a message.
errorHandler(q, errStatus) ==
    Respond([q EXCEPT !.errorText = "err.message"],
            IF errStatus # 0 THEN errStatus ELSE 500)

\* getOrResetSpending up to its SELECT: the clock is read before the query
checkSpendingLimits(q, ctx) ==
    [q EXCEPT !.pc = "led_select", !.ctx = ctx,
              !.today = nowDay, !.currentMonth = MonthOf(nowDay),
              !.sawPaused = IF ctx = "check"
                            THEN \E r2 \in Reqs : req[r2].pausedToday
                            ELSE @]

\* a handler that commits the usage before it extracts
StartPipeline_CommitFirst(q) ==
    IF q.user.present THEN [q EXCEPT !.pc = "commit_user"]
    ELSE [q EXCEPT !.pc = "commit_anon"]

\* the handler after canClean.allowed, up to its first fetch or AI call
StartPipeline(q) ==
    CASE q.endpoint = "clean-url" -> [q EXCEPT !.pc = "fetch"]
      [] q.endpoint = "clean-photo" -> [q EXCEPT !.pc = "ai_extract", !.path = "slow"]
      [] OTHER ->
            IF q.urlOk THEN [q EXCEPT !.pc = "yt_page", !.path = "slow"]
            ELSE Respond([q EXCEPT !.fetchFailed = TRUE], 400)

\* canCleanRecipe's return and the handler's `if (!canClean.allowed)`
Decide(q, paused, recipes_used) ==
    LET c == canCleanRecipe(paused, q.user, q.fingerprint, recipes_used)
        q1 == [q EXCEPT !.canClean = c]
    IN  IF c.allowed THEN StartPipeline(q1) ELSE Respond(q1, 402)

\* a test that finds the month changed at every call
NeedsMonthlyReset_Always(q) == TRUE

\* resetMonthlyUsageIfNeeded up to its UPDATE; FALSE: nothing to reset
NeedsMonthlyReset(q) == q.user.month_started # MonthOf(nowDay)

resetMonthlyUsageIfNeeded(q, from) ==
    [q EXCEPT !.pc = "reset_usage", !.userMonth = MonthOf(nowDay), !.resetFrom = from]

\* canCleanRecipe after isSystemPaused() answered false
AfterPauseCheck(q) ==
    IF q.user.present THEN
        IF NeedsMonthlyReset(q) THEN resetMonthlyUsageIfNeeded(q, "canClean")
        ELSE Decide(q, FALSE, 0)
    ELSE IF q.fingerprint # "none" THEN [q EXCEPT !.pc = "anon_select"]
    ELSE Decide(q, FALSE, 0)

\* a usage commit that prefers the fingerprint's counter to the user's
AfterSpend_FingerprintFirst(q) ==
    IF q.endpoint = "translate" THEN Respond(q, 200)
    ELSE IF q.fingerprint # "none" THEN [q EXCEPT !.pc = "commit_anon"]
    ELSE IF q.user.present THEN [q EXCEPT !.pc = "commit_user"]
    ELSE Respond(q, 200)


\* the handler after trackSpending: the usage commit, or the response
AfterSpend(q) ==
    IF q.endpoint = "translate" THEN Respond(q, 200)
    ELSE IF q.user.present THEN [q EXCEPT !.pc = "commit_user"]
    ELSE IF q.fingerprint # "none" THEN [q EXCEPT !.pc = "commit_anon"]
    ELSE Respond(q, 200)

\* checkSpendingLimits returns { paused: shouldPause } to its caller:
\* isSystemPaused in canCleanRecipe, trackSpending, or GET /api/status
LedgerReturn(q) ==
    LET q0 == LedgerLocalsDead(q)
        q1 == [q0 EXCEPT !.pausedResult = BoolStr(q.shouldPause)]
    IN  IF q.ctx = "check" THEN
            IF q.shouldPause
            THEN Decide([q1 EXCEPT !.pausedToday = (q.today = nowDay)], TRUE, 0)
            ELSE AfterPauseCheck(q1)
        ELSE IF q.ctx = "track" THEN AfterSpend(q0)
        ELSE Respond(q1, 200)

\* a breaker that stays paused once the stored flag is set
AfterMonthly_StickyPause(q) ==
    LET sp == ShouldPause(q.tracker) \/ q.tracker.paused
        q1 == [q EXCEPT !.shouldPause = sp]
    IN  IF sp # q.tracker.paused THEN [q1 EXCEPT !.pc = "led_set_paused"]
        ELSE LedgerReturn(q1)

\* checkSpendingLimits after getOrResetSpending returned tracker
AfterMonthly(q) ==
    LET sp == ShouldPause(q.tracker)
        q1 == [q EXCEPT !.shouldPause = sp]
    IN  IF sp # q.tracker.paused THEN [q1 EXCEPT !.pc = "led_set_paused"]
        ELSE LedgerReturn(q1)

\* getOrResetSpending: `if (tracker.monthly_month !== currentMonth)`
AfterDaily(q) ==
    IF q.tracker.monthly_month # q.currentMonth
    THEN [q EXCEPT !.pc = "led_reset_month"]
    ELSE AfterMonthly(q)

\* getOrResetSpending: `if (tracker.daily_date ... !== today)`
AfterSelect(q) ==
    IF q.tracker.daily_date # q.today
    THEN [q EXCEPT !.pc = "led_reset_day"]
    ELSE AfterDaily(q)

\* the extraction handlers from their first line to the first await
ExtractionHandler(q) ==
    IF q.user.present /\ NeedsMonthlyReset(q)
    THEN resetMonthlyUsageIfNeeded(q, "route")
    ELSE checkSpendingLimits(q, "check")

\* POST /translate: requirePaidSubscription, then the handler up to the AI call
TranslateHandler(q) ==
    IF requirePaidSubscription(q.user) THEN [q EXCEPT !.pc = "ai_translate"]
    ELSE Respond(q, 402)

\* the key of rateLimiter once authenticateToken has run
RecipeRateKey(q) == IF q.user.present THEN q.user.id ELSE Ip

\* GET /api/status up to the SELECT of checkSpendingLimits
StatusHandler(q) == checkSpendingLimits(q, "status")

\* a router that resolves the quota before the limiter rejects
Route_QuotaFirst(q, rt) ==
    IF q.endpoint \in Extraction THEN
        IF rateLimiter(rt, RecipeRateKey(q), WINDOW_MS, RECIPE_RATE_MAX).next
        THEN ExtractionHandler(q)
        ELSE Respond([q EXCEPT !.canClean =
                        canCleanRecipe(FALSE, q.user, q.fingerprint, 0)], 429)
    ELSE TranslateHandler(q)

\* the router after authenticateToken: recipeRateLimiter on the extraction
\* routes, then the handler
Route(q, rt) ==
    IF q.endpoint \in Extraction THEN
        IF rateLimiter(rt, RecipeRateKey(q), WINDOW_MS, RECIPE_RATE_MAX).next
        THEN ExtractionHandler(q)
        ELSE Respond(q, 429)
    ELSE TranslateHandler(q)

RouteRate(q, rt) ==
    IF q.endpoint \in Extraction
    THEN rateLimiter(rt, RecipeRateKey(q), WINDOW_MS, RECIPE_RATE_MAX).rate
    ELSE rt


----------------------------------------------------------------------------
(* Actions                                                                 *)

\* a request arrives: apiRateLimiter (req.user is not set yet, the key is the
\* address), then authenticateToken up to its SELECT; without a token the
\* router goes on synchronously.  /api/status is mounted before the recipe
\* router and has no authenticateToken.  The request is one of the given
\* endpoints, tokens and fingerprints.
\* the extraction requests other than r that carry the token and have
\* neither been answered nor not yet arrived
InFlightWith(r, token) ==
    { o \in Reqs \ {r} : /\ req[o].pc \notin {"idle", "done"}
                          /\ req[o].endpoint \in Extraction
                          /\ req[o].token = token }

ArriveIn(r, endpoints, tokens, fingerprints) ==
    /\ req[r].pc = "idle"
    /\ \E endpoint \in endpoints, token \in tokens,
          fingerprint \in fingerprints, urlOk \in BOOLEAN :
        /\ urlOk \/ endpoint = "clean-youtube"
        /\ endpoint = "status" => token = "none" /\ fingerprint = "none"
        /\ endpoint = "translate" => fingerprint = "none"
        /\ LET api == rateLimiter(rate, Ip, WINDOW_MS, API_RATE_MAX)
               q == [req[r] EXCEPT
                        !.endpoint = endpoint, !.token = token,
                        !.fingerprint = fingerprint, !.urlOk = urlOk,
                        !.arrivedPaused = LedgerPausedAt(ledger, nowDay),
                        !.sentAll = @ + 1,
                        !.passedApi =
                            (IF api.rate[Ip].count = 1 THEN 0 ELSE @)
                            + (IF api.next THEN 1 ELSE 0),
                        !.rejected =
                            (IF api.rate[Ip].count = 1 THEN 0 ELSE @)
                            + (IF \/ ~api.next
                                  \/ /\ endpoint \in Extraction
                                     /\ token = "none"
                                     /\ ~rateLimiter(api.rate, Ip, WINDOW_MS,
                                                     RECIPE_RATE_MAX).next
                               THEN 1 ELSE 0),
                        !.replaced =
                            IF rate[Ip].present /\ api.rate[Ip].count = 1
                            THEN req[r].rejected ELSE 0,
                        !.passedRecipe =
                            (IF api.rate[Ip].count = 1 THEN 0 ELSE @)
                            + (IF /\ api.next
                                  /\ endpoint \in Extraction
                                  /\ token = "none"
                                  /\ rateLimiter(api.rate, Ip, WINDOW_MS,
                                                 RECIPE_RATE_MAX).next
                               THEN 1 ELSE 0),
                        !.concurrent =
                            IF endpoint \in Extraction /\ token # "none"
                            THEN Cardinality(InFlightWith(r, token)) ELSE 0,
                        !.sentExtraction =
                            IF endpoint \in Extraction THEN @ + 1 ELSE @]
           IN  IF ~api.next THEN
                    /\ req' = [req EXCEPT ![r] = Respond(q, 429)]
                    /\ rate' = api.rate
               ELSE IF endpoint = "status" THEN
                    /\ req' = [req EXCEPT ![r] = StatusHandler(q)]
                    /\ rate' = api.rate
               ELSE IF token = "none" THEN
                    /\ req' = [req EXCEPT ![r] = Route(q, api.rate)]
                    /\ rate' = RouteRate(q, api.rate)
               ELSE
                    /\ req' = [req EXCEPT ![r] = [q EXCEPT !.pc = "auth"]]
                    /\ rate' = api.rate
    /\ UNCHANGED <<nowDay, nowMs, ledger, users, anon>>

Arrive(r) == ArriveIn(r, Endpoints, Tokens, FingerprintInputs)

\* authenticateToken's SELECT: req.user is the row as it is now
Auth(r) ==
    /\ req[r].pc = "auth"
    /\ LET u == users[req[r].token]
           q == [req[r] EXCEPT !.user =
                    [present |-> TRUE, id |-> req[r].token,
                     subscription |-> u.subscription,
                     recipes_used_this_month |-> u.recipes_used_this_month,
                     month_started |-> u.month_started]]
       IN  /\ req' = [req EXCEPT ![r] = Route(q, rate)]
           /\ rate' = RouteRate(q, rate)
    /\ UNCHANGED <<nowDay, nowMs, ledger, users, anon>>

\* resetMonthlyUsageIfNeeded's UPDATE, and the same change of the user object
ResetUsage(r) ==
    /\ req[r].pc = "reset_usage"
    /\ LET q == req[r]
           id == q.user.id
           q1 == [q EXCEPT !.user.recipes_used_this_month = 0,
                           !.user.month_started = q.userMonth,
                           !.userMonth = 0, !.resetFrom = "none",
                           !.usageChanged =
                               @ \/ users[id].recipes_used_this_month # 0]
       IN  /\ users' = [users EXCEPT ![id].recipes_used_this_month = 0,
                                     ![id].month_started = q.userMonth]
           /\ req' = [req EXCEPT ![r] =
                        IF q.resetFrom = "route"
                        THEN checkSpendingLimits(q1, "check")
                        ELSE Decide(q1, FALSE, 0)]
    /\ UNCHANGED <<nowDay, nowMs, ledger, anon, rate>>

\* getOrResetSpending's SELECT
LedgerSelect(r) ==
    /\ req[r].pc = "led_select"
    /\ req' = [req EXCEPT ![r] =
                AfterSelect([req[r] EXCEPT
                    !.tracker = ledger,
                    !.checkedPaused =
                        IF req[r].ctx = "track" THEN @
                        ELSE LedgerPausedAt(ledger, req[r].today)])]
    /\ UNCHANGED <<nowDay, nowMs, ledger, users, anon, rate>>

\* UPDATE spending_tracker SET daily_date = $1, daily_amount = 0
LedgerResetDay(r) ==
    /\ req[r].pc = "led_reset_day"
    /\ ledger' = [ledger EXCEPT !.daily_date = req[r].today, !.daily_amount = 0]
    /\ req' = [req EXCEPT ![r] =
                AfterDaily([req[r] EXCEPT !.tracker.daily_amount = 0,
                                          !.ledgerChanged = @ \/ ledger' # ledger])]
    /\ UNCHANGED <<nowDay, nowMs, users, anon, rate>>

\* UPDATE spending_tracker SET monthly_month = $1, monthly_amount = 0, paused = FALSE
LedgerResetMonth(r) ==
    /\ req[r].pc = "led_reset_month"
    /\ ledger' = [ledger EXCEPT !.monthly_month = req[r].currentMonth,
                                !.monthly_amount = 0, !.paused = FALSE]
    /\ req' = [req EXCEPT ![r] =
                AfterMonthly([req[r] EXCEPT !.tracker.monthly_amount = 0,
                                            !.tracker.paused = FALSE,
                                            !.ledgerChanged = @ \/ ledger' # ledger])]
    /\ UNCHANGED <<nowDay, nowMs, users, anon, rate>>

\* UPDATE spending_tracker SET paused = $1
LedgerSetPaused(r) ==
    /\ req[r].pc = "led_set_paused"
    /\ ledger' = [ledger EXCEPT !.paused = req[r].shouldPause]
    /\ req' = [req EXCEPT ![r] =
                LedgerReturn([req[r] EXCEPT !.ledgerChanged = @ \/ ledger' # ledger])]
    /\ UNCHANGED <<nowDay, nowMs, users, anon, rate>>

\* getAnonymousUsage's SELECT
AnonSelect(r) ==
    /\ req[r].pc = "anon_select"
    /\ LET n == anon[req[r].fingerprint]
       IN  req' = [req EXCEPT ![r] =
                    IF n = -1 THEN [req[r] EXCEPT !.pc = "anon_insert"]
                    ELSE [req[r] EXCEPT !.pc = "anon_touch", !.usage = n]]
    /\ UNCHANGED <<nowDay, nowMs, ledger, users, anon, rate>>

\* getAnonymousUsage's INSERT ... RETURNING *; a row inserted meanwhile by
\* another request makes the statement fail (one row per fingerprint)
AnonInsert(r) ==
    /\ req[r].pc = "anon_insert"
    /\ LET fp == req[r].fingerprint
       IN  IF anon[fp] = -1 THEN
                /\ anon' = [anon EXCEPT ![fp] = 0]
                /\ req' = [req EXCEPT ![r] = Decide(req[r], FALSE, 0)]
           ELSE
                /\ anon' = anon
                /\ req' = [req EXCEPT ![r] = errorHandler(req[r], 0)]
    /\ UNCHANGED <<nowDay, nowMs, ledger, users, rate>>

\* getAnonymousUsage's UPDATE of last_seen and ip_address; the usage returned
\* is the row of the SELECT
AnonTouch(r) ==
    /\ req[r].pc = "anon_touch"
    /\ req' = [req EXCEPT ![r] = Decide(req[r], FALSE, req[r].usage)]
    /\ UNCHANGED <<nowDay, nowMs, ledger, users, anon, rate>>


\* err.status of what an AI call throws: 0 for an error without a status (a
\* network error, a JSON.parse or type error), else the provider's status
ErrStatuses == {0, 529}

\* a handler that asks the model again when the text holds no JSON object
NoStructuredJson_Retry(q) ==
    [q EXCEPT !.noJson = TRUE, !.pc = "ai_extract"]

\* `if (!match) throw new Error('No JSON')`, and JSON.parse's SyntaxError:
\* errors without a status
NoStructuredJson(q) ==
    errorHandler([q EXCEPT !.noJson = TRUE], 0)

\* after validateAndFixRecipe: the repair call when it found issues
AfterValidate(q, issues) ==
    LET q1 == [q EXCEPT !.issues = issues]
    IN  IF issues THEN [q1 EXCEPT !.pc = "ai_fix"]
        ELSE IF q.path = "fast" THEN [q1 EXCEPT !.pc = "ai_enhance"]
        ELSE [q1 EXCEPT !.pc = "spend_update"]

\* clean-url: fetchWebpage (null when fetch throws), extractRecipeSchema,
\* and on the fast path convertSchemaToRecipe and validateAndFixRecipe
Fetch(r) ==
    /\ req[r].pc = "fetch"
    /\ \E html \in {"null", "schema", "noschema"}, issues \in BOOLEAN :
        /\ issues => html = "schema"
        /\ LET q == [req[r] EXCEPT !.fetches = @ + 1]
           IN  req' = [req EXCEPT ![r] =
                    CASE html = "null" ->
                            Respond([q EXCEPT !.fetchFailed = TRUE, !.fetchThrew = TRUE], 400)
                      [] html = "schema" ->
                            AfterValidate([q EXCEPT !.path = "fast"], issues)
                      [] OTHER -> [q EXCEPT !.pc = "ai_extract", !.path = "slow"]]
    /\ UNCHANGED <<nowDay, nowMs, ledger, users, anon, rate>>

\* the extraction call (slow-path URL, photos, transcript): it throws, or its
\* text holds no JSON object (`throw new Error(...)`), or the recipe is parsed
\* and validated
AiExtract(r) ==
    /\ req[r].pc = "ai_extract"
    /\ \E out \in {"throw", "nojson", "ok"}, errStatus \in ErrStatuses,
          issues \in BOOLEAN :
        /\ errStatus # 0 => out = "throw"
        /\ issues => out = "ok"
        /\ LET q == [req[r] EXCEPT !.aiCalls = @ + 1]
           IN  req' = [req EXCEPT ![r] =
                    CASE out = "throw" ->
                            errorHandler([q EXCEPT !.aiThrew = TRUE], errStatus)
                      [] out = "nojson" -> NoStructuredJson(q)
                      [] OTHER -> AfterValidate(q, issues)]
    /\ UNCHANGED <<nowDay, nowMs, ledger, users, anon, rate>>

\* fixRecipeIssues: one AI call; a throw or a text without JSON gives the
\* recipe back unchanged
AiFix(r) ==
    /\ req[r].pc = "ai_fix"
    /\ LET q == [req[r] EXCEPT !.aiCalls = @ + 1, !.repairCalls = @ + 1]
       IN  req' = [req EXCEPT ![r] =
                IF q.path = "fast" THEN [q EXCEPT !.pc = "ai_enhance"]
                ELSE [q EXCEPT !.pc = "spend_update"]]
    /\ UNCHANGED <<nowDay, nowMs, ledger, users, anon, rate>>

\* enhanceRecipeWithDualUnits: one AI call, errors swallowed
AiEnhance(r) ==
    /\ req[r].pc = "ai_enhance"
    /\ req' = [req EXCEPT ![r] =
                [req[r] EXCEPT !.aiCalls = @ + 1, !.pc = "spend_update"]]
    /\ UNCHANGED <<nowDay, nowMs, ledger, users, anon, rate>>

\* a handler that sends whatever transcript it got to the extraction call
AfterTranscript_ExtractAnyway(q, longEnough) ==
    [q EXCEPT !.pc = "ai_extract", !.fetchFailed = ~longEnough]

\* the handler's test of the transcript getYouTubeTranscript returned
AfterTranscript(q, longEnough) ==
    IF longEnough THEN [q EXCEPT !.pc = "ai_extract"]
    ELSE Respond([q EXCEPT !.fetchFailed = TRUE], 400)

\* getYouTubeTranscript: the fetch of the video page (not caught); without a
\* caption track the transcript is the title and the description
YtPage(r) ==
    /\ req[r].pc = "yt_page"
    /\ \E out \in {"throw", "captions", "short", "long"} :
        LET q == [req[r] EXCEPT !.fetches = @ + 1]
        IN  req' = [req EXCEPT ![r] =
                CASE out = "throw" -> errorHandler([q EXCEPT !.fetchThrew = TRUE], 0)
                  [] out = "captions" -> [q EXCEPT !.pc = "yt_caption"]
                  [] OTHER -> AfterTranscript(q, out = "long")]
    /\ UNCHANGED <<nowDay, nowMs, ledger, users, anon, rate>>

\* getYouTubeTranscript: the fetch of the caption track (not caught)
YtCaption(r) ==
    /\ req[r].pc = "yt_caption"
    /\ \E out \in {"throw", "short", "long"} :
        LET q == [req[r] EXCEPT !.fetches = @ + 1]
        IN  req' = [req EXCEPT ![r] =
                IF out = "throw" THEN errorHandler([q EXCEPT !.fetchThrew = TRUE], 0)
                ELSE AfterTranscript(q, out = "long")]
    /\ UNCHANGED <<nowDay, nowMs, ledger, users, anon, rate>>

\* translateRecipe: one AI call; it throws, or there is no JSON in the text
AiTranslate(r) ==
    /\ req[r].pc = "ai_translate"
    /\ \E out \in {"throw", "nojson", "ok"}, errStatus \in ErrStatuses :
        /\ errStatus # 0 => out = "throw"
        /\ LET q == [req[r] EXCEPT !.aiCalls = @ + 1]
           IN  req' = [req EXCEPT ![r] =
                    IF out = "ok" THEN [q EXCEPT !.pc = "spend_update"]
                    ELSE IF out = "throw"
                    THEN errorHandler([q EXCEPT !.aiThrew = TRUE], errStatus)
                    ELSE errorHandler(q, 0)]
    /\ UNCHANGED <<nowDay, nowMs, ledger, users, anon, rate>>

\* trackSpending's UPDATE, then checkSpendingLimits up to its SELECT
SpendUpdate(r) ==
    /\ req[r].pc = "spend_update"
    /\ LET amount == SpendAmount(req[r].endpoint, req[r].path)
       IN  ledger' = [ledger EXCEPT !.daily_amount = @ + amount,
                                    !.monthly_amount = @ + amount]
    /\ req' = [req EXCEPT ![r] =
                checkSpendingLimits([req[r] EXCEPT !.spends = @ + 1,
                                                   !.ledgerChanged = TRUE], "track")]
    /\ UNCHANGED <<nowDay, nowMs, users, anon, rate>>

\* incrementUserUsage, then the response
CommitUser(r) ==
    /\ req[r].pc = "commit_user"
    /\ users' = [users EXCEPT ![req[r].user.id].recipes_used_this_month = @ + 1]
    /\ req' = [req EXCEPT ![r] =
                Respond([req[r] EXCEPT
                    !.commits = @ + 1, !.usageChanged = TRUE,
                    !.servedUser =
                        IF req[r].servedMonth = req[r].user.month_started
                        THEN @ + 1 ELSE 1,
                    !.servedMonth = req[r].user.month_started], 200)]
    /\ UNCHANGED <<nowDay, nowMs, ledger, anon, rate>>

\* incrementAnonymousUsage, then the response
CommitAnon(r) ==
    /\ req[r].pc = "commit_anon"
    /\ anon' = [anon EXCEPT ![req[r].fingerprint] = @ + 1]
    /\ req' = [req EXCEPT ![r] =
                Respond([req[r] EXCEPT !.commits = @ + 1, !.usageChanged = TRUE,
                                       !.servedAnon = @ + 1], 200)]
    /\ UNCHANGED <<nowDay, nowMs, ledger, users, rate>>

\* startServer, in a new process: initSpendingTable, then app.listen; the
\* requests of the process before and its limiter's Map are gone
Boot ==
    /\ \A r \in Reqs : req[r].boots < MaxBoots
    /\ ledger' = initSpendingTable(ledger, nowDay)
    /\ rate' = [k \in RateKeys |-> NoWindow]
    /\ req' = [r \in Reqs |-> [IdleReq EXCEPT !.boots = req[r].boots + 1]]
    /\ UNCHANGED <<nowDay, nowMs, users, anon>>

\* midnight (UTC) passes
NextDay ==
    /\ nowDay < MaxDay
    /\ nowDay' = nowDay + 1
    /\ req' = [r \in Reqs |-> [req[r] EXCEPT !.arrivedPaused = FALSE,
                                             !.pausedToday = FALSE,
                                             !.sawPaused = FALSE]]
    /\ UNCHANGED <<nowMs, ledger, users, anon, rate>>

\* the response has been sent: the next request of the client can arrive,
\* while the client's window counts fewer than the given number of requests
\* (whether a call of the client was answered true today is remembered)
FinishBelow(r, requests) ==
    /\ req[r].pc = "done"
    /\ rate[Ip].present => rate[Ip].count < requests
    /\ req' = [req EXCEPT ![r] =
                [IdleReq EXCEPT !.pausedToday = req[r].pausedToday,
                                !.sentAll = req[r].sentAll,
                                !.sentExtraction = req[r].sentExtraction,
                                !.passedApi = req[r].passedApi,
                                !.rejected = req[r].rejected,
                                !.boots = req[r].boots,
                                !.servedUser = req[r].servedUser,
                                !.servedMonth = req[r].servedMonth,
                                !.servedAnon = req[r].servedAnon,
                                !.passedRecipe = req[r].passedRecipe]]
    /\ UNCHANGED <<nowDay, nowMs, ledger, users, anon, rate>>

Finish(r) == FinishBelow(r, MaxRequests)

\* more than a rate window's length passes
PassWindow ==
    /\ nowMs < MaxWindows * (WINDOW_MS + 1)
    /\ nowMs' = nowMs + WINDOW_MS + 1
    /\ req' = [r \in Reqs |-> [req[r] EXCEPT !.sentAll = 0, !.sentExtraction = 0]]
    /\ UNCHANGED <<nowDay, ledger, users, anon, rate>>

\* exactly a rate window's length passes
PassWindowLength ==
    /\ nowMs < MaxWindows * WINDOW_MS
    /\ nowMs' = nowMs + WINDOW_MS
    /\ UNCHANGED <<nowDay, ledger, users, anon, rate, req>>

\* the steps of a request after its arrival
Step(r) ==
    \/ Auth(r)
    \/ ResetUsage(r)
    \/ LedgerSelect(r)
    \/ LedgerResetDay(r)
    \/ LedgerResetMonth(r)
    \/ LedgerSetPaused(r)
    \/ AnonSelect(r)
    \/ AnonInsert(r)
    \/ AnonTouch(r)
    \/ Fetch(r)
    \/ AiExtract(r)
    \/ AiFix(r)
    \/ AiEnhance(r)
    \/ YtPage(r)
    \/ YtCaption(r)
    \/ AiTranslate(r)
    \/ SpendUpdate(r)
    \/ CommitUser(r)
    \/ CommitAnon(r)

\* One request of any kind, from any of the initial states, while the clock
\* runs.
Next ==
    \/ Arrive(1)
    \/ Step(1)
    \/ NextDay
    \/ PassWindow

Spec == Init /\ [][Next]_vars

----------------------------------------------------------------------------
(* Concurrent extraction requests of one signed-in user                    *)

InitQuota ==
    /\ nowDay = 0
    /\ nowMs = 0
    /\ ledger = LedgerRow(0, 0, 0, 0, FALSE)
    /\ users \in [UserIds -> InitUsers]
    /\ anon = [f \in Fingerprints |-> INITIAL_FREE_RECIPES - 1]
    /\ rate = [k \in RateKeys |-> NoWindow]
    /\ req = [r \in Reqs |-> IdleReq]

ArriveQuota(r) == ArriveIn(r, Extraction, UserIds, {"none"})

StepQuota(r) ==
    \/ Auth(r)
    \/ ResetUsage(r)
    \/ LedgerSelect(r)
    \/ LedgerResetDay(r)
    \/ LedgerResetMonth(r)
    \/ Fetch(r)
    \/ AiExtract(r)
    \/ AiFix(r)
    \/ AiEnhance(r)
    \/ YtPage(r)
    \/ YtCaption(r)
    \/ SpendUpdate(r)
    \/ CommitUser(r)

\* NumReq requests of the user, interleaved at every await, while days pass.
NextQuota ==
    \/ \E r \in Reqs : ArriveQuota(r) \/ StepQuota(r)
    \/ NextDay

SpecQuota == InitQuota /\ [][NextQuota]_vars

----------------------------------------------------------------------------
(* Concurrent requests on the spending ledger                              *)

InitLedger ==
    /\ nowDay = 0
    /\ nowMs = 0
    /\ ledger \in InitLedgers
    /\ users = [u \in UserIds |->
                  [subscription |-> "pro",
                   recipes_used_this_month |-> BASIC_RECIPES_PER_MONTH,
                   month_started |-> 0]]
    /\ anon = [f \in Fingerprints |-> INITIAL_FREE_RECIPES - 1]
    /\ rate = [k \in RateKeys |-> NoWindow]
    /\ req = [r \in Reqs |-> IdleReq]

\* GET /api/status calls checkSpendingLimits, clean-photo calls isSystemPaused
\* and trackSpending, translate calls trackSpending
ArriveLedger(r) ==
    \/ ArriveIn(r, {"status"}, {"none"}, {"none"})
    \/ ArriveIn(r, {"clean-photo", "translate"}, UserIds, {"none"})

StepLedger(r) ==
    \/ Auth(r)
    \/ ResetUsage(r)
    \/ LedgerSelect(r)
    \/ LedgerResetDay(r)
    \/ LedgerResetMonth(r)
    \/ LedgerSetPaused(r)
    \/ AiExtract(r)
    \/ AiFix(r)
    \/ AiTranslate(r)
    \/ SpendUpdate(r)
    \/ CommitUser(r)

\* NumReq requests that read and write the ledger's row, interleaved at every
\* await, while days pass.
NextLedger ==
    \/ \E r \in Reqs : ArriveLedger(r) \/ StepLedger(r)
    \/ NextDay

SpecLedger == InitLedger /\ [][NextLedger]_vars

----------------------------------------------------------------------------
(* The extraction requests of one client, one after another, with and      *)
(* without its session token, while days pass                              *)

\* the rows as the client's earlier requests left them: each recipe counted
\* in a row was delivered with a 200 response
InitSeq ==
    /\ nowDay = 0
    /\ nowMs = 0
    /\ ledger = LedgerRow(0, 0, 0, 0, FALSE)
    /\ users \in [UserIds -> InitUsers]
    /\ anon \in [Fingerprints -> InitAnon]
    /\ rate = [k \in RateKeys |-> NoWindow]
    /\ \E u \in UserIds, f \in Fingerprints :
          req = [r \in Reqs |->
                    [IdleReq EXCEPT
                        !.servedUser = users[u].recipes_used_this_month,
                        !.servedMonth = users[u].month_started,
                        !.servedAnon = IF anon[f] < 0 THEN 0 ELSE anon[f]]]

ArriveSeq == ArriveIn(1, {"clean-photo"}, Tokens, Fingerprints)

StepSeq(r) ==
    \/ Auth(r)
    \/ ResetUsage(r)
    \/ LedgerSelect(r)
    \/ LedgerResetDay(r)
    \/ LedgerResetMonth(r)
    \/ AnonSelect(r)
    \/ AnonInsert(r)
    \/ AnonTouch(r)
    \/ AiExtract(r)
    \/ AiFix(r)
    \/ SpendUpdate(r)
    \/ CommitUser(r)
    \/ CommitAnon(r)
    \/ Finish(r)

NextSeq ==
    \/ ArriveSeq
    \/ StepSeq(1)
    \/ NextDay

SpecSeq == InitSeq /\ [][NextSeq]_vars

----------------------------------------------------------------------------
(* The server process is started, serves a request and is started again    *)

\* the database as an earlier process left it, or as it was created
InitBoot ==
    /\ nowDay = 0
    /\ nowMs = 0
    /\ ledger \in InitLedgers \cup {NoLedgerRow}
    /\ users = [u \in UserIds |->
                  [subscription |-> "pro",
                   recipes_used_this_month |-> BASIC_RECIPES_PER_MONTH,
                   month_started |-> 0]]
    /\ anon = [f \in Fingerprints |-> INITIAL_FREE_RECIPES - 1]
    /\ rate = [k \in RateKeys |-> NoWindow]
    /\ req = [r \in Reqs |-> IdleReq]

\* app.listen is called once initSpendingTable has returned
ArriveBoot ==
    /\ req[1].boots > 0
    /\ ArriveLedger(1)

NextBoot ==
    \/ Boot
    \/ ArriveBoot
    \/ StepLedger(1)
    \/ NextDay

SpecBoot == InitBoot /\ [][NextBoot]_vars

----------------------------------------------------------------------------
(* The requests of one client, one after another, on a day that is close   *)
(* to its ceiling, while a status poll waits for its reset                 *)

\* GET /api/status in getOrResetSpending, between the SELECT that returned
\* the row of the day before and the UPDATE of its daily reset
StalePoll ==
    [IdleReq EXCEPT !.endpoint = "status", !.pc = "led_reset_day",
                    !.ctx = "status", !.today = 1, !.currentMonth = MonthOf(1),
                    !.tracker = LedgerRow(0, 0, 0, 0, FALSE)]

\* The second day of the month: the poll read the row before the first
\* request of the day had reset it, and the extractions paid since then have
\* brought the day to one photo extraction below its ceiling.
InitBreaker ==
    /\ nowDay = 1
    /\ nowMs = 0
    /\ ledger = LedgerRow(1, DailyLimit - COST_PER_PHOTO_RECIPE,
                          0, DailyLimit - COST_PER_PHOTO_RECIPE, FALSE)
    /\ users = [u \in UserIds |->
                  [subscription |-> "pro",
                   recipes_used_this_month |-> BASIC_RECIPES_PER_MONTH,
                   month_started |-> 0]]
    /\ anon = [f \in Fingerprints |-> INITIAL_FREE_RECIPES - 1]
    /\ rate = [k \in RateKeys |-> NoWindow]
    /\ req = [r \in Reqs |-> IF r = NumReq THEN StalePoll ELSE IdleReq]

\* the client sends photo extractions
ArriveBreaker == ArriveIn(1, {"clean-photo"}, UserIds, {"none"})

StepBreaker(r) ==
    \/ Auth(r)
    \/ ResetUsage(r)
    \/ LedgerSelect(r)
    \/ LedgerResetDay(r)
    \/ LedgerResetMonth(r)
    \/ LedgerSetPaused(r)
    \/ AiExtract(r)
    \/ AiFix(r)
    \/ SpendUpdate(r)
    \/ CommitUser(r)
    \/ Finish(r)

NextBreaker ==
    \/ ArriveBreaker
    \/ \E r \in Reqs : StepBreaker(r)
    \/ NextDay

SpecBreaker == InitBreaker /\ [][NextBreaker]_vars


----------------------------------------------------------------------------
(* The requests of one anonymous client, one after another                 *)

InitRate ==
    /\ nowDay = 0
    /\ nowMs = 0
    /\ ledger = LedgerRow(0, 0, 0, 0, FALSE)
    /\ users \in [UserIds -> InitUsers]
    /\ anon = [f \in Fingerprints |-> INITIAL_FREE_RECIPES]
    /\ rate = [k \in RateKeys |-> NoWindow]
    /\ req = [r \in Reqs |-> IdleReq]

\* status polls and extraction requests without a token; the fingerprint's
\* free recipes are used up, so that every admitted request is answered 402
ArriveRate == ArriveIn(1, {"status", "clean-photo"}, {"none"}, FingerprintInputs)

StepRate(r) ==
    \/ LedgerSelect(r)
    \/ AnonSelect(r)
    \/ AnonTouch(r)
    \/ Finish(r)

NextRate ==
    \/ ArriveRate
    \/ \E r \in Reqs : StepRate(r)
    \/ PassWindow

SpecRate == InitRate /\ [][NextRate]_vars

----------------------------------------------------------------------------
(* The requests of one anonymous client through a whole window of the      *)
(* application-wide limiter                                                *)

\* no request carries a token: one row of users is enough
InitWindow ==
    /\ InitRate
    /\ \A u \in UserIds : /\ users[u].subscription = "free"
                          /\ users[u].recipes_used_this_month = FREE_RECIPES_PER_MONTH

StepWindow(r) ==
    \/ LedgerSelect(r)
    \/ AnonSelect(r)
    \/ AnonTouch(r)
    \/ FinishBelow(r, MaxPolls)

NextWindow ==
    \/ ArriveRate
    \/ \E r \in Reqs : StepWindow(r)
    \/ PassWindow
    \/ PassWindowLength

SpecWindow == InitWindow /\ [][NextWindow]_vars

----------------------------------------------------------------------------
(* The recipe functions: the path of the recipe object through a handler,   *)
(* from the extracted object to res.json, and through translateRecipe.      *)
(* The recipe is drawn from a bounded set and every AI call answers with    *)
(* any result; the ledger and the usage rows play no part.                  *)

SeqsUpTo(S, n) == UNION { [1..k -> S] : k \in 0..n }

\* steps as extraction yields them: a bare string, an instruction that is
\* mostly white space, instructions at and over MAX_STEP_LENGTH, an object
\* without an instruction, and an object whose ingredients is a string
StepValues ==
    { StepOf(TRUE, 50, 50, "none"), StepOf(FALSE, 12, 8, "array"),
      StepOf(FALSE, MAX_STEP_LENGTH, MAX_STEP_LENGTH, "array"),
      StepOf(FALSE, MAX_STEP_LENGTH + 1, MAX_STEP_LENGTH + 1, "none"),
      StepOf(FALSE, -1, -1, "array"), StepOf(FALSE, 60, 60, "other") }

SiteFields == <<"site", "url", "img">>

\* what convertSchemaToRecipe or the JSON.parse of an extraction answer yields
ExtractedRecipes ==
    { RecipeOf(t[1], t[2], n, TRUE, st, SiteFields, FALSE) :
        t \in {<<"", 0>>, <<"Soup", 2>>}, n \in {-1, 5, 6},
        st \in SeqsUpTo(StepValues, MaxSteps) }
    \cup { RecipeOf("Soup", 2, 6, FALSE, <<>>, SiteFields, FALSE) }

\* the objects an AI answer can parse to
AiObjects ==
    { RecipeOf("Soupe", sv, 6, TRUE, st, src, nd) :
        sv \in {2, 8},
        st \in { <<StepOf(FALSE, 50, 50, "array")>>,
                 <<StepOf(FALSE, 50, 50, "array"),
                   StepOf(FALSE, MAX_STEP_LENGTH + 1, MAX_STEP_LENGTH + 1, "array")>> },
        src \in { SiteFields, <<"", "autre", "">> },
        nd \in BOOLEAN }

AiResults ==
    { AiResult(k, NoRecipe) : k \in {"throw", "nojson", "unparsable"} }
    \cup { AiResult("object", o) : o \in AiObjects }

\* the recipes a client sends to POST /translate
TranslateInputs ==
    { RecipeOf("Soup", sv, 6, TRUE, <<StepOf(FALSE, 50, 50, "array")>>, src, FALSE) :
        sv \in {2, 4},
        src \in { SiteFields, <<"", "", "">>, <<"blog", "url2", "">> } }

\* a handler that validates what the repair returned and repairs it again
AfterFix_RepairAgain(q) ==
    IF q.repairCalls = 1 /\ validateAndFixRecipe(q.recipe).issues # {}
    THEN [q EXCEPT !.pc = "rp_fix"]
    ELSE IF q.path = "fast" THEN [q EXCEPT !.pc = "rp_enhance"] ELSE Respond(q, 200)

\* after validation and repair: the fast path enhances, the others respond
AfterFix(q) ==
    IF q.path = "fast" THEN [q EXCEPT !.pc = "rp_enhance"] ELSE Respond(q, 200)

\* validateAndFixRecipe on the extracted recipe, in a handler
RecipeValidate(r) ==
    /\ req[r].pc = "idle"
    /\ \E path \in {"fast", "slow"}, recipe \in ExtractedRecipes :
         LET v == validateAndFixRecipe([recipe EXCEPT !.needsDualUnits = (path = "fast")])
             q == [req[r] EXCEPT !.endpoint = "clean-url", !.path = path,
                                 !.input = recipe, !.recipe = v.recipe, !.issueTags = v.issues,
                                 !.issues = (v.issues # {})]
         IN  req' = [req EXCEPT ![r] =
                       IF v.issues # {} THEN [q EXCEPT !.pc = "rp_fix"] ELSE AfterFix(q)]
    /\ UNCHANGED <<nowDay, nowMs, ledger, users, anon, rate>>

\* if (issues.length) recipe = await fixRecipeIssues(recipe, issues, ...)
RecipeFix(r) ==
    /\ req[r].pc = "rp_fix"
    /\ \E ai \in AiResults :
         req' = [req EXCEPT ![r] =
                   AfterFix([req[r] EXCEPT !.recipe = fixRecipeIssues(@, ai),
                                           !.aiCalls = @ + 1,
                                           !.repairCalls = @ + 1])]
    /\ UNCHANGED <<nowDay, nowMs, ledger, users, anon, rate>>

\* recipe = await enhanceRecipeWithDualUnits(recipe, targetLanguage)
RecipeEnhance(r) ==
    /\ req[r].pc = "rp_enhance"
    /\ \E ai \in AiResults :
         req' = [req EXCEPT ![r] =
                   Respond([req[r] EXCEPT !.recipe = enhanceRecipeWithDualUnits(@, ai),
                                          !.aiCalls = @ + 1], 200)]
    /\ UNCHANGED <<nowDay, nowMs, ledger, users, anon, rate>>

\* POST /translate's translateRecipe(recipe, targetLanguage): it throws
\* unless the answer parses
RecipeTranslate(r) ==
    /\ req[r].pc = "idle"
    /\ \E recipe \in TranslateInputs, ai \in AiResults :
         LET q == [req[r] EXCEPT !.endpoint = "translate", !.input = recipe,
                                 !.aiCalls = @ + 1]
         IN  req' = [req EXCEPT ![r] =
                       IF ai.kind = "object"
                       THEN Respond([q EXCEPT !.recipe = translateRecipe(recipe, ai.obj)], 200)
                       ELSE errorHandler(q, 0)]
    /\ UNCHANGED <<nowDay, nowMs, ledger, users, anon, rate>>

InitRecipe == InitRate

StepRecipe(r) ==
    \/ RecipeValidate(r)
    \/ RecipeFix(r)
    \/ RecipeEnhance(r)
    \/ RecipeTranslate(r)

NextRecipe == StepRecipe(1)

SpecRecipe == InitRecipe /\ [][NextRecipe]_vars

----------------------------------------------------------------------------
(* Properties of the usage resolver and of the handlers                    *)

\* canCleanRecipe has returned in request r
Decided(r) == req[r].canClean # NoDecision

\* request r is an extraction request whose pause check answered v
Checked(r, v) == req[r].endpoint \in Extraction /\ req[r].pausedResult = v

\* C1: when the row that isSystemPaused read is at a ceiling, canCleanRecipe
\* answers { allowed: false, reason: 'system_limit' } and nothing else, and the
\* handler responds 402, for every caller: no tier and no counter is looked at.
C1_PausedDenies ==
    \A r \in Reqs :
        (req[r].endpoint \in Extraction /\ req[r].pausedResult # "unknown"
            /\ req[r].checkedPaused)
        => /\ req[r].pc = "done"
           /\ req[r].status = 402
           /\ req[r].canClean = [NoDecision EXCEPT !.reason = "system_limit"]

\* a pro user is refused with system_limit
C1_Witness ==
    \E r \in Reqs :
        /\ req[r].endpoint \in Extraction
        /\ req[r].user.present /\ req[r].user.subscription = "pro"
        /\ req[r].checkedPaused
        /\ req[r].status = 402
        /\ req[r].canClean.reason = "system_limit"

\* C2 (as claimed): whatever the interleaving of a user's extraction requests,
\* the committed count of a free user stays within FREE_RECIPES_PER_MONTH.
C2_FreeQuotaNeverExceeded ==
    \A u \in UserIds :
        users[u].subscription = "free" =>
            users[u].recipes_used_this_month <= FREE_RECIPES_PER_MONTH

\* C3 (as claimed): while the day (the month) of the row is the current one
\* and the clock stays in it, no statement lowers daily_amount
\* (monthly_amount).
C3_AmountsNeverDecrease ==
    [][ /\ (nowDay' = nowDay /\ ledger.daily_date = nowDay)
            => ledger'.daily_amount >= ledger.daily_amount
        /\ (nowDay' = nowDay /\ ledger.monthly_month = MonthOf(nowDay))
            => ledger'.monthly_amount >= ledger.monthly_amount ]_vars


\* C4 (as claimed): a call of isSystemPaused() made after a call of the same
\* day has answered true answers true as well.
C4_StaysPaused ==
    \A r \in Reqs :
        (req[r].sawPaused /\ req[r].pausedResult # "unknown")
            => req[r].pausedResult = "true"

\* C5 (as claimed): a request that arrives while the ledger is at a ceiling
\* makes no AI call, as long as the day of its arrival lasts.
C5_NoAiCallWhilePaused ==
    \A r \in Reqs : req[r].arrivedPaused => req[r].aiCalls = 0

\* the AI calls of a committed extraction: the extraction call or the
\* enhancement call, and the repair call when validation found an issue
CallsOfPipeline(q) == 1 + (IF q.issues THEN 1 ELSE 0)

\* C6 (as claimed): the usage is committed as the last step of a request that
\* responds 200, after its AI calls and its spend; a request that responds
\* anything else has left the usage counters as they were.
C6_FailedLeavesUsageUnchanged ==
    \A r \in Reqs :
        req[r].endpoint \in Extraction =>
            /\ req[r].commits > 0 =>
                    /\ req[r].pc = "done" /\ req[r].status = 200
                    /\ req[r].aiCalls = CallsOfPipeline(req[r])
                    /\ req[r].spends = 1
            /\ (req[r].pc = "done" /\ req[r].status # 200) => ~req[r].usageChanged

\* C6 (amended): the usage is committed as the last step of a request that
\* responds 200, after its AI calls and its spend; a request that responds
\* anything else has incremented no usage counter.
C6_FailedNeverCommits ==
    \A r \in Reqs :
        req[r].endpoint \in Extraction =>
            /\ req[r].commits > 0 =>
                    /\ req[r].pc = "done" /\ req[r].status = 200
                    /\ req[r].aiCalls = CallsOfPipeline(req[r])
                    /\ req[r].spends = 1
            /\ (req[r].pc = "done" /\ req[r].status # 200) => req[r].commits = 0

\* a request fails after its AI call, having reset the user's monthly count
C6_Witness ==
    \E r \in Reqs :
        /\ req[r].endpoint \in Extraction
        /\ req[r].pc = "done" /\ req[r].status = 500
        /\ req[r].aiCalls > 0
        /\ req[r].usageChanged /\ req[r].commits = 0

\* C7: with the ledger not paused, a basic user is allowed iff the count is
\* below BASIC_RECIPES_PER_MONTH and a free user iff it is below
\* FREE_RECIPES_PER_MONTH; the free user who is denied gets upgrade: true and
\* no requiresSignup.
C7_TierCeilings ==
    \A r \in Reqs :
        (Checked(r, "false") /\ req[r].user.present /\ Decided(r)) =>
            LET u == req[r].user
                c == req[r].canClean
            IN  /\ u.subscription = "basic" =>
                    c.allowed = (u.recipes_used_this_month < BASIC_RECIPES_PER_MONTH)
                /\ u.subscription = "free" =>
                    /\ c.allowed = (u.recipes_used_this_month < FREE_RECIPES_PER_MONTH)
                    /\ ~c.allowed => c.upgrade = "true" /\ c.requiresSignup # "true"
                /\ (req[r].pc = "done" /\ ~c.allowed) => req[r].status = 402

\* a free user at the ceiling is denied, with the upgrade hint
C7_Witness ==
    \E r \in Reqs :
        /\ Checked(r, "false") /\ req[r].user.present
        /\ req[r].user.subscription = "free"
        /\ req[r].user.recipes_used_this_month = FREE_RECIPES_PER_MONTH
        /\ ~req[r].canClean.allowed /\ req[r].canClean.upgrade = "true"
        /\ req[r].status = 402

\* C8: with the ledger not paused, a caller without a user and with a
\* fingerprint is allowed, with remaining = INITIAL_FREE_RECIPES - recipes_used,
\* iff recipes_used < INITIAL_FREE_RECIPES, and is else denied with
\* initial_limit and requiresSignup.
C8_AnonymousAllowance ==
    \A r \in Reqs :
        (Checked(r, "false") /\ ~req[r].user.present
            /\ req[r].fingerprint # "none" /\ Decided(r)) =>
            LET c == req[r].canClean
            IN  IF req[r].usage < INITIAL_FREE_RECIPES THEN
                    /\ c.allowed /\ c.hasRemaining
                    /\ c.remaining = INITIAL_FREE_RECIPES - req[r].usage
                ELSE
                    /\ ~c.allowed /\ c.reason = "initial_limit"
                    /\ c.requiresSignup = "true"
                    /\ req[r].status = 402

\* the last free recipe: recipes_used = INITIAL_FREE_RECIPES - 1, remaining = 1
C8_Witness ==
    \E r \in Reqs :
        /\ Checked(r, "false") /\ ~req[r].user.present
        /\ req[r].usage = INITIAL_FREE_RECIPES - 1
        /\ req[r].canClean.allowed /\ req[r].canClean.remaining = 1

\* C9: with the ledger not paused, a pro user is allowed whatever the count of
\* the month.
C9_ProAlwaysAllowed ==
    \A r \in Reqs :
        (Checked(r, "false") /\ req[r].user.present
            /\ req[r].user.subscription = "pro") =>
            /\ Decided(r) => req[r].canClean.allowed
            /\ req[r].pc = "done" => (Decided(r) /\ req[r].status # 402)

\* a pro user beyond every ceiling is served
C9_Witness ==
    \E r \in Reqs :
        /\ Checked(r, "false")
        /\ req[r].user.present /\ req[r].user.subscription = "pro"
        /\ req[r].user.recipes_used_this_month >= BASIC_RECIPES_PER_MONTH
        /\ req[r].canClean.allowed
        /\ req[r].status = 200

\* request r carries neither a user nor a fingerprint
Untracked(r) ==
    /\ req[r].endpoint \in Extraction
    /\ req[r].token = "none" /\ req[r].fingerprint = "none"

\* C10 (as claimed): an extraction request without user and fingerprint is
\* answered 402 with no_tracking, makes no fetch and no AI call, and changes
\* neither the ledger nor a usage counter.
C10_AlwaysNoTracking ==
    \A r \in Reqs :
        Untracked(r) =>
            /\ req[r].fetches = 0 /\ req[r].aiCalls = 0
            /\ ~req[r].ledgerChanged /\ ~req[r].usageChanged
            /\ req[r].pc = "done" =>
                    /\ req[r].status = 402
                    /\ req[r].canClean.reason = "no_tracking"

\* C10 (amended): an extraction request without user and fingerprint is
\* answered 429 by a limiter or 402 by the handler, with system_limit when its
\* pause check answered true and with no_tracking otherwise; it makes no fetch
\* and no AI call, records no spend and changes no usage counter.
C10_UntrackedNeverServed ==
    \A r \in Reqs :
        Untracked(r) =>
            /\ req[r].fetches = 0 /\ req[r].aiCalls = 0
            /\ req[r].spends = 0 /\ req[r].commits = 0 /\ ~req[r].usageChanged
            /\ req[r].pc = "done" =>
                    /\ req[r].status \in {402, 429}
                    /\ req[r].status = 402 =>
                            req[r].canClean.reason =
                                IF req[r].pausedResult = "true"
                                THEN "system_limit" ELSE "no_tracking"

\* an untracked request is denied with no_tracking
C10_Witness ==
    \E r \in Reqs :
        /\ Untracked(r)
        /\ req[r].status = 402
        /\ req[r].canClean.reason = "no_tracking"


----------------------------------------------------------------------------
(* Properties of the limiters, of the pipeline's failures and of the       *)
(* recipe functions                                                        *)

\* C11 (as claimed): a request is answered 429 only when, in the current
\* window, it is beyond the client's RECIPE_RATE_MAX-th extraction request or
\* beyond the client's API_RATE_MAX-th request.
C11_Rejected429OnlyOverBudget ==
    [][ \A r \in Reqs :
          (req[r].pc = "idle" /\ req'[r].pc = "done" /\ req'[r].status = 429)
            => \/ req'[r].sentExtraction > RECIPE_RATE_MAX
               \/ req'[r].sentAll > API_RATE_MAX ]_vars


\* C12: an extraction request answered 429 has called neither isSystemPaused
\* nor canCleanRecipe, has made no fetch and no AI call, and has changed
\* neither the ledger nor a usage counter; a request that has not passed the
\* limiters yet has not reached the quota check.
C12_RateLimitBeforeQuota ==
    \A r \in Reqs :
        /\ (req[r].endpoint \in Extraction /\ req[r].status = 429) =>
                /\ req[r].pausedResult = "unknown" /\ ~Decided(r)
                /\ req[r].fetches = 0 /\ req[r].aiCalls = 0
                /\ req[r].spends = 0 /\ req[r].commits = 0
                /\ ~req[r].ledgerChanged /\ ~req[r].usageChanged
        /\ req[r].pc \in {"idle", "auth"} =>
                req[r].pausedResult = "unknown" /\ ~Decided(r)

\* the strict limiter rejects an extraction request
C12_Witness ==
    \E r \in Reqs :
        /\ req[r].endpoint \in Extraction
        /\ req[r].pc = "done" /\ req[r].status = 429
        /\ rate[Ip].count > RECIPE_RATE_MAX


\* C13: a clean-url or clean-youtube request that found no source material
\* (no page, no video id, a transcript below the minimum length) has ended
\* with status 400, without an AI call, a spend or a usage commit.
C13_FetchFailureBeforeBilling ==
    \A r \in Reqs :
        req[r].fetchFailed =>
            /\ req[r].endpoint \in {"clean-url", "clean-youtube"}
            /\ req[r].pc = "done" /\ req[r].status = 400
            /\ req[r].aiCalls = 0 /\ req[r].spends = 0 /\ req[r].commits = 0

\* the caption track was fetched and the transcript is too short
C13_Witness ==
    \E r \in Reqs :
        /\ req[r].fetchFailed
        /\ req[r].endpoint = "clean-youtube"
        /\ req[r].fetches = 2
        /\ req[r].status = 400


\* C14 (as claimed): an extraction request that has made an AI call has
\* recorded its spend by the time it has responded.
C14_AiCallImpliesSpend ==
    \A r \in Reqs :
        (req[r].endpoint \in Extraction /\ req[r].pc = "done" /\ req[r].aiCalls > 0)
            => req[r].spends > 0


\* C15: when the text of the extraction call's response holds no JSON object
\* the request has ended with status 500 after that single AI call, without a
\* spend and without a usage commit.
C15_NoJsonFailsOnce ==
    \A r \in Reqs :
        req[r].noJson =>
            /\ req[r].endpoint \in Extraction
            /\ req[r].pc = "done" /\ req[r].status = 500
            /\ req[r].aiCalls = 1
            /\ req[r].spends = 0 /\ req[r].commits = 0

\* the slow path of clean-url ends on a response without JSON
C15_Witness ==
    \E r \in Reqs :
        /\ req[r].noJson
        /\ req[r].endpoint = "clean-url" /\ req[r].path = "slow"
        /\ req[r].status = 500

\* C16 (claimed): a recipe that an extraction endpoint delivers with a 200
\* response has no step whose instruction is longer than MAX_STEP_LENGTH
\* characters, whatever the repair and the enhancement calls returned.
C16_DeliveredStepsBounded ==
    \A r \in Reqs :
      (req[r].endpoint \in Extraction /\ req[r].pc = "done" /\ req[r].status = 200)
        => \A i \in 1..Len(req[r].recipe.steps) :
             req[r].recipe.steps[i].len <= MAX_STEP_LENGTH

\* C17 (claimed): when the extraction or the translation call of the AI
\* provider throws, the client receives status 500 and a generic message:
\* neither the provider's status code nor its error message is returned.
C17_ProviderErrorHidden ==
    \A r \in Reqs :
      (req[r].aiThrew /\ req[r].pc = "done")
        => req[r].status = 500 /\ req[r].errorText # "err.message"

\* C18 (claimed): a network failure while fetching the source material (the
\* recipe page, the video page or the caption track) is answered with status
\* 400 and the handler's own message, after a single attempt.
C18_FetchFailureIs400 ==
    \A r \in Reqs :
      (req[r].fetchThrew /\ req[r].pc = "done")
        => /\ req[r].status = 400
           /\ req[r].errorText # "err.message"
           /\ req[r].fetches <= 2

\* C19: when the month's accumulator is at MONTHLY_SPENDING_LIMIT, a day
\* rollover inside the month does not lift the pause.  Once isSystemPaused()
\* has returned to a request that has recorded no spend, and the row has been
\* reset for a later day of the month it counts while its monthly amount is
\* at the limit, isSystemPaused() answered true and the stored flag is true.
C19_MonthlyPauseSurvivesDayRollover ==
    \A r \in Reqs :
      ( /\ req[r].endpoint \in Extraction
        /\ req[r].pausedResult # "unknown"
        /\ req[r].spends = 0
        /\ ledger.daily_date # 0
        /\ ledger.monthly_month = MonthOf(ledger.daily_date)
        /\ ledger.monthly_amount >= MonthlyLimit )
        => req[r].pausedResult = "true" /\ ledger.paused

\* a request was refused on the second day of a month whose accumulator is
\* at the limit, after its pause check had reset the day's accumulator
C19_Witness ==
    \E r \in Reqs :
      /\ req[r].endpoint \in Extraction
      /\ req[r].pc = "done" /\ req[r].status = 402
      /\ req[r].pausedResult = "true"
      /\ req[r].ledgerChanged
      /\ ledger.daily_date = 1 /\ ledger.daily_amount = 0
      /\ ledger.monthly_month = 0 /\ ledger.monthly_amount >= MonthlyLimit
      /\ ledger.paused

\* C20: for every recipe sent to POST /translate and every AI answer that
\* parses to a JSON object, the recipe that translateRecipe returns has the
\* source, the sourceUrl and the imageUrl of the recipe that was sent,
\* whatever the answer holds in these fields.
C20_TranslateKeepsSourceFields ==
    \A r \in Reqs :
      (req[r].endpoint = "translate" /\ req[r].pc = "done" /\ req[r].status = 200)
        => /\ req[r].recipe.source = req[r].input.source
           /\ req[r].recipe.sourceUrl = req[r].input.sourceUrl
           /\ req[r].recipe.imageUrl = req[r].input.imageUrl

\* a translation was delivered whose title is the answer's and whose source
\* fields are the input's, the input having an empty imageUrl
C20_Witness ==
    \E r \in Reqs :
      /\ req[r].endpoint = "translate" /\ req[r].pc = "done" /\ req[r].status = 200
      /\ req[r].input.title = "Soup" /\ req[r].recipe.title = "Soupe"
      /\ req[r].input.source = "blog" /\ req[r].recipe.source = "blog"
      /\ req[r].recipe.sourceUrl = "url2" /\ req[r].recipe.imageUrl = ""

----------------------------------------------------------------------------
(* Properties of the translate gate, of validation, of concurrent usage,    *)
(* of the ledger's resets and of the rate windows                           *)

\* C21: POST /translate makes its AI call and records its spend only for a
\* signed-in user whose subscription is basic or pro.  A caller without a
\* user, or a free user, whose request got past the application's limiter is
\* answered 402 without an AI call and without a spend.
C21_TranslateOnlyForPaid ==
    \A r \in Reqs :
      req[r].endpoint = "translate" =>
        /\ (req[r].aiCalls > 0 \/ req[r].spends > 0)
             => /\ req[r].user.present
                /\ req[r].user.subscription \in {"basic", "pro"}
        /\ ( /\ req[r].pc = "done" /\ req[r].status # 429
             /\ ~(req[r].user.present /\ req[r].user.subscription \in {"basic", "pro"}) )
             => req[r].status = 402 /\ req[r].aiCalls = 0 /\ req[r].spends = 0

\* a free user's translation was refused with 402
C21_Witness ==
    \E r \in Reqs :
      /\ req[r].endpoint = "translate" /\ req[r].pc = "done" /\ req[r].status = 402
      /\ req[r].user.present /\ req[r].user.subscription = "free"
      /\ req[r].aiCalls = 0 /\ req[r].spends = 0 /\ ~req[r].ledgerChanged

\* the recipe that request r gave to validateAndFixRecipe
Validated(r) == req[r].endpoint = "clean-url" /\ req[r].path # "none"

\* C22: validateAndFixRecipe emits too_few_steps iff the recipe it is given
\* has more than 5 ingredients and fewer than 3 steps, steps_too_long iff
\* some step's instruction is longer than 400 characters, and no other tag.
C22_IssueTags ==
    \A r \in Reqs :
      Validated(r) =>
        LET in == req[r].input
            n == IF in.ingredients < 0 THEN 0 ELSE in.ingredients
        IN  /\ ("too_few_steps" \in req[r].issueTags)
                 <=> (n >= 6 /\ Len(in.steps) <= 2)
            /\ ("steps_too_long" \in req[r].issueTags)
                 <=> (\E i \in DOMAIN in.steps : in.steps[i].len >= 401)
            /\ req[r].issueTags \subseteq {"too_few_steps", "steps_too_long"}

\* six ingredients and two steps, the longer of exactly 400 characters: only
\* too_few_steps is emitted
C22_Witness ==
    \E r \in Reqs :
      /\ Validated(r)
      /\ req[r].input.ingredients = 6 /\ Len(req[r].input.steps) = 2
      /\ \E i \in 1..2 : req[r].input.steps[i].len = 400
      /\ req[r].issueTags = {"too_few_steps"}

\* the monthly ceiling of a free or a basic subscription
CeilingOf(subscription) ==
    IF subscription = "basic" THEN BASIC_RECIPES_PER_MONTH ELSE FREE_RECIPES_PER_MONTH

\* C23: under concurrent extraction requests of a free or basic user, the
\* stored recipes_used_this_month exceeds the tier's ceiling by at most the
\* number of that user's requests that were in flight together, minus one
\* (the number of other requests in flight when one of them arrived); and a
\* request that commits was admitted on a count, read from the stored row,
\* that was below the ceiling.
C23_OvershootBoundedByConcurrency ==
    \A u \in UserIds :
      users[u].subscription \in {"free", "basic"} =>
        LET ceiling == CeilingOf(users[u].subscription)
        IN  /\ \/ users[u].recipes_used_this_month <= ceiling
               \/ \E r \in Reqs :
                    /\ req[r].token = u
                    /\ users[u].recipes_used_this_month - ceiling <= req[r].concurrent
            /\ \A r \in Reqs :
                 (req[r].token = u /\ req[r].commits > 0)
                   => req[r].user.recipes_used_this_month < ceiling

\* two requests of a free user that were in flight together have both
\* committed, and the stored count is one above the ceiling
C23_Witness ==
    \E u \in UserIds :
      /\ users[u].subscription = "free"
      /\ users[u].recipes_used_this_month = FREE_RECIPES_PER_MONTH + 1
      /\ \A r \in 1..2 : req[r].token = u /\ req[r].commits = 1 /\ req[r].status = 200
      /\ \E r \in 1..2 : req[r].concurrent = 1

\* C24 (claimed): when trackSpending(amount) is the first access to the
\* ledger after a day (a month) boundary, the pending reset is applied before
\* the amount is added: when the reset of that call is done, the new day's
\* (month's) accumulator equals the amount.
C24_SpendCountedInNewPeriod ==
    [][ \A r \in Reqs :
          LET amount == SpendAmount(req[r].endpoint, req[r].path)
          IN  /\ ( /\ req[r].ctx = "track" /\ req[r].pc = "led_reset_day"
                   /\ ledger'.daily_date # ledger.daily_date )
                   => ledger'.daily_amount = amount
              /\ ( /\ req[r].ctx = "track" /\ req[r].pc = "led_reset_month"
                   /\ ledger'.monthly_month # ledger.monthly_month )
                   => ledger'.monthly_amount = amount ]_vars

\* C25 (claimed): within one calendar month a user's stored
\* recipes_used_this_month never decreases, whatever the interleaving of the
\* user's requests: once the row's month_started is the current month, no
\* statement lowers the count while the clock stays in that month.
C25_UsageNeverDecreasesInMonth ==
    [][ \A u \in UserIds :
          ( /\ users[u].month_started = MonthOf(nowDay)
            /\ nowDay' = nowDay )
            => users'[u].recipes_used_this_month >= users[u].recipes_used_this_month
      ]_vars

\* the stage of the clean-url pipeline that a request is in: 2 the quota
\* check, 3 Fetching to Validating on the fast path, 4 SlowExtract and
\* Validating, 5 Repairing, 6 Enhancing, 7 the spend commit, 8 the usage
\* commit, 9 the response
StageOf(q) ==
    CASE q.pc = "idle" -> 0
      [] q.pc = "auth" -> 1
      [] q.pc \in {"reset_usage", "anon_select", "anon_insert", "anon_touch"} -> 2
      [] q.pc = "fetch" -> 3
      [] q.pc = "ai_extract" -> 4
      [] q.pc = "ai_fix" -> 5
      [] q.pc = "ai_enhance" -> 6
      [] q.pc = "spend_update" -> 7
      [] q.pc \in {"commit_user", "commit_anon"} -> 8
      [] q.pc = "done" -> 9
      [] OTHER -> IF q.ctx = "track" THEN 7 ELSE 2

\* C26: within one clean-url request the stages follow one another in the
\* order quota check, Fetching, Detecting, FastConvert or SlowExtract,
\* Validating, Repairing, Enhancing, spend commit, usage commit, response:
\* no step of the request, however it is interleaved with the steps of other
\* requests, takes it back to an earlier stage, and the spend is recorded
\* and the usage committed only after the stages before them.
C26_StagesInOrder ==
    [][ \A r \in Reqs :
          (req[r].endpoint = "clean-url" /\ req'[r].endpoint = "clean-url")
            => /\ StageOf(req'[r]) >= StageOf(req[r])
               /\ req'[r].spends > req[r].spends
                    => /\ StageOf(req[r]) = 7
                       /\ req[r].fetches >= 1 /\ req[r].aiCalls >= 1
               /\ req'[r].commits > req[r].commits
                    => StageOf(req[r]) = 8 /\ req[r].spends >= 1
               /\ req'[r].aiCalls > req[r].aiCalls => StageOf(req[r]) \in 4..6
               /\ req'[r].fetches > req[r].fetches => StageOf(req[r]) = 3 ]_vars

\* a fast-path clean-url request that was repaired and enhanced has been
\* answered 200 while another request of the user was in flight
C26_Witness ==
    \E r \in Reqs :
      /\ req[r].endpoint = "clean-url" /\ req[r].path = "fast" /\ req[r].issues
      /\ req[r].pc = "done" /\ req[r].status = 200
      /\ req[r].fetches = 1 /\ req[r].aiCalls = 2
      /\ req[r].spends = 1 /\ req[r].commits = 1
      /\ \E o \in Reqs \ {r} : req[o].pc \notin {"idle", "done"}

\* C27: an extraction request makes at most one repair call: none while
\* and when validation produced no tag, exactly one once the handler is past
\* the repair of a recipe with a tag; what the repair call returned is not
\* validated again (the tags stay those of the one validation, and on the
\* slow path the answer's object is delivered as it is).
C27_OneRepairCall ==
    \A r \in Reqs :
      Validated(r) =>
        /\ req[r].repairCalls <= 1
        /\ req[r].issueTags = {} => req[r].repairCalls = 0
        /\ req[r].pc = "rp_fix" => req[r].repairCalls = 0 /\ req[r].issueTags # {}
        /\ (req[r].pc \in {"rp_enhance", "done"} /\ req[r].issueTags # {})
             => req[r].repairCalls = 1
        /\ req[r].issueTags = validateAndFixRecipe(req[r].input).issues
        /\ (req[r].pc = "done" /\ req[r].path = "slow" /\ req[r].repairCalls = 1)
             => \/ req[r].recipe \in AiObjects
                \/ req[r].recipe = validateAndFixRecipe(req[r].input).recipe

\* a recipe flagged too_few_steps was repaired once, and the answer of the
\* repair, which holds a step over MAX_STEP_LENGTH, was delivered
C27_Witness ==
    \E r \in Reqs :
      /\ Validated(r) /\ req[r].path = "slow"
      /\ req[r].pc = "done" /\ req[r].status = 200
      /\ req[r].issueTags = {"too_few_steps"}
      /\ req[r].repairCalls = 1 /\ req[r].aiCalls = 1
      /\ req[r].recipe \in AiObjects
      /\ StepsTooLong(req[r].recipe.steps)

\* C28: when the breaker is paused only because the day's accumulator reached
\* DAILY_SPENDING_LIMIT, the first isSystemPaused() after the date changes
\* lifts the pause.  Once isSystemPaused() has returned to a request that has
\* recorded no spend, and the row has been reset for a later day while its
\* monthly amount is below the ceiling, the call answered false, the stored
\* flag is false and the request is not refused for system_limit.
C28_DailyPauseLiftedByRollover ==
    \A r \in Reqs :
      ( /\ req[r].endpoint \in Extraction
        /\ req[r].pausedResult # "unknown"
        /\ req[r].spends = 0
        /\ ledger.daily_date # 0
        /\ ledger.monthly_amount < MonthlyLimit )
        => /\ req[r].pausedResult = "false"
           /\ ~ledger.paused
           /\ Decided(r) => req[r].canClean.reason # "system_limit"

\* the row that was paused at the daily ceiling (its monthly amount equal to
\* DAILY_SPENDING_LIMIT) has been reset on the next day by a pause check that
\* answered false, and the request was admitted
C28_Witness ==
    \E r \in Reqs :
      /\ req[r].endpoint \in Extraction
      /\ req[r].pausedResult = "false" /\ req[r].ledgerChanged
      /\ req[r].spends = 0
      /\ Decided(r) /\ req[r].canClean.allowed
      /\ ledger.daily_date = 1 /\ ledger.daily_amount = 0
      /\ ledger.monthly_month = 0 /\ ledger.monthly_amount = DailyLimit
      /\ ~ledger.paused

\* C29: for each limiter and key, between the creation of a rate window and
\* its replacement at most max requests are admitted (10 by recipeRateLimiter,
\* 100 by apiRateLimiter); a request that arrives more than windowMs after
\* windowStart replaces the record by a fresh window that counts it from 1,
\* and a request that arrives within windowMs leaves windowStart alone and
\* only increments the count, once for each limiter it passes through
C29_WindowAdmitsAtMostMax ==
    /\ [](\A r \in Reqs : /\ req[r].passedApi <= API_RATE_MAX
                          /\ req[r].passedRecipe <= RECIPE_RATE_MAX
                          /\ rate[Ip].present =>
                                /\ req[r].passedApi <= rate[Ip].count
                                /\ req[r].passedRecipe <= rate[Ip].count)
    /\ [][\A k \in RateKeys :
            rate'[k] # rate[k] =>
                IF rate[k].present /\ nowMs - rate[k].windowStart <= WINDOW_MS
                THEN /\ rate'[k].windowStart = rate[k].windowStart
                     /\ rate'[k].count \in {rate[k].count + 1, rate[k].count + 2}
                ELSE /\ rate'[k].windowStart = nowMs
                     /\ rate'[k].count \in {1, 2}]_vars

\* a status poll is the first request that apiRateLimiter turns away in the
\* window: the hundred before it were admitted
C29_Witness ==
    \E r \in Reqs : /\ req[r].pc = "done"
                    /\ req[r].endpoint = "status"
                    /\ req[r].status = 429
                    /\ req[r].passedApi = API_RATE_MAX
                    /\ rate[Ip].count = API_RATE_MAX + 1

----------------------------------------------------------------------------
(* Properties of translation, of the validated recipe, of the ledger at     *)
(* boot and at its ceilings, and of the quota of an identity                *)

\* C31 (as claimed): the recipe that POST /translate delivers has the
\* servings of the recipe that was sent, whatever object the AI answer
\* parses to.
C31_TranslateKeepsServings ==
    \A r \in Reqs :
        (req[r].endpoint = "translate" /\ req[r].pc = "done" /\ req[r].status = 200)
        => req[r].recipe.servings = req[r].input.servings

\* the instruction of step a is the instruction of step b
SameInstruction(a, b) == a.len = b.len /\ a.trimmed = b.trimmed

\* the instructions of kept are instructions of steps, in the order of steps
RECURSIVE KeptInOrder(_, _)
KeptInOrder(kept, steps) ==
    IF kept = <<>> THEN TRUE
    ELSE IF steps = <<>> THEN FALSE
    ELSE IF SameInstruction(Head(kept), Head(steps))
         THEN KeptInOrder(Tail(kept), Tail(steps))
         ELSE KeptInOrder(kept, Tail(steps))

\* C32 (as claimed): the recipe that validateAndFixRecipe returns has a title
\* ("Recipe" when it had none), a servings value (4 when it had none), an
\* ingredients array and a steps array; each of its steps is an object with an
\* ingredients array and an instruction whose trimmed length is over 10, and
\* its steps are steps of the input in the input's order.
C32_ValidatedShape ==
    \A r \in Reqs :
        (Validated(r) /\ req[r].aiCalls = 0) =>
            LET out == req[r].recipe
                in == req[r].input
            IN  /\ out.title # "" /\ (in.title = "" => out.title = "Recipe")
                /\ out.servings # 0 /\ (in.servings = 0 => out.servings = 4)
                /\ out.ingredients >= 0
                /\ out.hasSteps
                /\ \A i \in 1..Len(out.steps) :
                        /\ ~out.steps[i].isString
                        /\ out.steps[i].ingredients = "array"
                        /\ out.steps[i].trimmed > 10
                /\ KeptInOrder(out.steps, IF in.hasSteps THEN in.steps ELSE <<>>)

\* C33: initSpendingTable is idempotent: when startServer runs while the row
\* of spending_tracker exists, the row is after it what it was before it
\* (daily_amount, monthly_amount and paused among its columns), so that the
\* spend and the pause outlive the process; and the table never has more than
\* one row
C33_BootKeepsLedger ==
    /\ [](ledger.rows <= 1)
    /\ [][(ledger.rows = 1 /\ \A r \in Reqs : req'[r].boots = req[r].boots + 1)
            => /\ ledger'.daily_amount = ledger.daily_amount
               /\ ledger'.monthly_amount = ledger.monthly_amount
               /\ ledger'.paused = ledger.paused
               /\ ledger'.rows = 1]_vars

\* the server has been started a second time and has served nothing since:
\* the row holds the spend of the first process, and the pause it stored
C33_Witness ==
    \E r \in Reqs : /\ req[r].boots = 2
                    /\ req[r].pc = "idle"
                    /\ req[r].sentAll = 0
                    /\ ledger.rows = 1
                    /\ ledger.daily_amount = DailyLimit - CostFast + COST_PER_PHOTO_RECIPE
                    /\ ledger.paused

\* the largest amount one request hands to trackSpending
MaxRequestCost == COST_PER_PHOTO_RECIPE

\* C34 (as claimed): however the requests interleave, the daily accumulator
\* is never over DAILY_SPENDING_LIMIT by more than the cost of one request,
\* and the monthly accumulator never over MONTHLY_SPENDING_LIMIT by more than
\* that: once an accumulator is at its ceiling no request adds to it.
C34_OvershootAtMostOneRequest ==
    /\ ledger.daily_amount <= DailyLimit + MaxRequestCost
    /\ ledger.monthly_amount <= MonthlyLimit + MaxRequestCost

\* C35 (as claimed): a recipe that validateAndFixRecipe returns with no issue
\* and with more than 5 ingredients has at least 3 steps, the steps dropped as
\* noise not counted.
C35_NoIssueMeansEnoughSteps ==
    \A r \in Reqs :
        (Validated(r) /\ req[r].aiCalls = 0 /\ req[r].issueTags = {}
            /\ req[r].recipe.ingredients > 5)
        => Len(req[r].recipe.steps) >= 3

\* C36 (as claimed): the recipe that a fast-path request delivers with 200
\* came out of an enhancement call that answered with a JSON object, and has
\* no _needsDualUnits marker: a request whose enhancement call throws or
\* answers without a JSON object does not respond 200.
C36_FastPathDeliversEnhanced ==
    \A r \in Reqs :
        (Validated(r) /\ req[r].path = "fast"
            /\ req[r].pc = "done" /\ req[r].status = 200)
        => ~req[r].recipe.needsDualUnits

\* C37: when the requests of a client follow one another, the extraction
\* requests of its user that were admitted in one calendar month and answered
\* 200 are at most FREE_RECIPES_PER_MONTH for a free user and
\* BASIC_RECIPES_PER_MONTH for a basic user, and those of its fingerprint are
\* at most INITIAL_FREE_RECIPES in all; no statement resets or lowers the
\* fingerprint's counter
C37_SequentialWithinCeiling ==
    /\ [](\A r \in Reqs :
            /\ req[r].servedAnon <= INITIAL_FREE_RECIPES
            /\ \A u \in UserIds :
                  users[u].subscription # "pro" =>
                      req[r].servedUser <= CeilingOf(users[u].subscription))
    /\ [][\A f \in Fingerprints : anon'[f] >= anon[f]]_vars

\* in the month after the one it started in, a free user has had its three
\* recipes and is refused the fourth; its fingerprint is at its allowance
C37_Witness ==
    \E r \in Reqs :
        /\ req[r].servedMonth = 1
        /\ req[r].servedUser = FREE_RECIPES_PER_MONTH
        /\ req[r].user.present /\ req[r].user.subscription = "free"
        /\ req[r].pc = "done" /\ req[r].status = 402
        /\ req[r].servedAnon = INITIAL_FREE_RECIPES

\* C38: a request that is answered 429 adds to the count of its key's window
\* and leaves windowStart where it was; and the first request of the key that
\* arrives more than windowMs after windowStart is admitted and starts a
\* window of its own, whatever the count of the old window had grown to
C38_RejectionKeepsWindowStart ==
    [][\A r \in Reqs :
          /\ (req[r].pc = "idle" /\ req'[r].pc = "done" /\ req'[r].status = 429)
             => /\ \A k \in RateKeys :
                      rate[k].present => rate'[k].windowStart = rate[k].windowStart
                /\ rate[Ip].present
                /\ rate'[Ip].count > rate[Ip].count
          /\ (/\ req[r].pc = "idle" /\ req'[r].pc # "idle"
              /\ rate[Ip].present
              /\ nowMs - rate[Ip].windowStart > WINDOW_MS)
             => /\ req'[r].status # 429
                /\ rate'[Ip].windowStart = nowMs]_vars

\* a client that was turned away three times in a window has the answer to
\* its status poll, the first request it sent after the window
C38_Witness ==
    \E r \in Reqs : /\ req[r].replaced >= 3
                    /\ req[r].endpoint = "status"
                    /\ req[r].pc = "done"
                    /\ req[r].status = 200
                    /\ rate[Ip].windowStart > WINDOW_MS
                    /\ rate[Ip].count = 1

====
